---- MODULE Spec2Model ----
(***************************************************************************)
(* A model of the DB_SEEDER seeding pipeline:                              *)
(*   - crawler.py       crawl(): bounded breadth-first URL discovery       *)
(*   - orchestrator.py  SeedingOrchestrator.run(): gate, discovery call,   *)
(*                      per-URL stages, gap analysis, status derivation    *)
(*   - src/provider.py  ProviderLayer.call_model(): fallback over the      *)
(*                      available backends, bounded retry, usage counters  *)
(*   - gap_analyzer.py  GapAnalyzer.analyze(): per-table scan              *)
(*   - embedder.py      embed_packages(): batch embedding of packages      *)
(*   - rewrites.py      process_text_into_packages(): sections, summaries  *)
(*                      and classification                                 *)
(*   - memory.py        insert_packages_to_supabase(): per-package insert; *)
(*                      get_supabase_client(): the storage handle          *)
(*                                                                         *)
(* Specifications                                                          *)
(*   SpecCrawl      crawl(seed) called on its own.  The value that         *)
(*                  _extract_links returns for a fetched page is left open *)
(*                  (any set of normalised same-origin URLs), so every     *)
(*                  link graph is covered.                                 *)
(*   SpecCrawlFair  SpecCrawl with weak fairness of the crawl's steps (the *)
(*                  event loop always resumes a runnable coroutine).       *)
(*   Spec           SeedingOrchestrator.run(seed) exactly as written, from *)
(*                  its first line.                                        *)
(*   SpecStages     run() from the completion of the discovery call on     *)
(*                  orchestrator.py:93, for every outcome that call can    *)
(*                  deliver (an exception, or a list of URLs).             *)
(*   SpecRun        Spec and SpecStages together: every run of Spec and    *)
(*                  every run of SpecStages.                               *)
(*   SpecProvider   NumCalls concurrent invocations of call_model on one   *)
(*                  ProviderLayer; the event loop interleaves them at the  *)
(*                  awaits (the dispatch attempts and the backoff sleeps). *)
(*   SpecGap        one call of GapAnalyzer.analyze().                     *)
(*   SpecEmbed      one call of embed_packages(packages).                  *)
(*   SpecCrawlPages crawl(seed) with _extract_links and _is_valid_url as   *)
(*                  written, over the hrefs a page can carry.              *)
(*   SpecRewrite    one call of process_text_into_packages(text).          *)
(*   SpecPersist    the embed and insert stages of run() for one URL,      *)
(*                  together with embed_packages and the loop of           *)
(*                  insert_packages_to_supabase.                           *)
(*   SpecGateRace   SpecRun for one seed, while the gate settings of the   *)
(*                  shared BrainState are changed from outside the run.    *)
(*   SpecAudit      the gap analysis step of run() together with          *)
(*                  GapAnalyzer.analyze().                                 *)
(*   SpecWriter     one call of insert_packages_to_supabase(packages, url) *)
(*                  for any list of packages.                              *)
(*   SpecClient     the calls of memory.get_supabase_client() that one     *)
(*                  process makes.                                         *)
(***************************************************************************)
EXTENDS Integers, Sequences, FiniteSets, TLC

\* ------------------------------------------------------------------ bounds

\* Number of distinct same-origin pages of the crawled site.
NumPages == 4
\* crawler.py:16 sets MAX_PAGES = 100; the model runs the same loop with the
\* cap scaled down so that the cap is reached on a site of NumPages pages.
MAX_PAGES == 3
\* crawler.py:19 sets MAX_DEPTH = 3; scaled down likewise.
MAX_DEPTH == 2

\* Longest URL list handed to the per-URL loop of run().
MaxUrls == 2
\* Most packages the rewrite stage returns for one URL.
MaxPackages == 1
\* Largest total word count the rewrite stage reports for one URL.
MaxWords == 1
\* Most incomplete rows the gap analysis reports for one table.
MaxGapRows == 1

\* Number of call_model invocations that share one usage object.
NumCalls == 2
\* Longest list available_providers() returns.
MaxProviders == 2
\* Longest prompt and longest response text, in characters.
MaxLen == 4
\* Largest value a usage counter starts from.
MaxInitialUsage == 1
\* Longest package list handed to embed_packages.
MaxEmbedPackages == 2
\* Most non-blank pieces re.split finds in a text.
MaxPieces == 2
\* Longest package list handed to insert_packages_to_supabase.
MaxRows == 2
\* Number of get_supabase_client calls a process makes.
MaxGets == 4

\* ------------------------------------------------------------------- URLs

\* A URL string is modelled by the parts the code looks at:
\*   scheme, netloc  what urlparse() finds ("" when absent)
\*   page            which path of the site it names (1 is the root); pages
\*                   are numbered in the order sorted() gives their strings
\*   slash           whether the string ends in "/"
Pages == 1..NumPages

Url(sch, net, p, sl) == [scheme |-> sch, netloc |-> net, page |-> p, slash |-> sl]

\* The seed strings a caller may pass: well-formed ones with and without a
\* trailing slash, and the three malformed shapes ("h/a", "//h/a", "http:///a").
Seeds ==
    { Url(sch, net, p, sl) :
        sch \in {"", "http"}, net \in {"", "h"}, p \in {1, 2}, sl \in BOOLEAN }

\* str.rstrip("/")
Rstrip(u) == [u EXCEPT !.slash = FALSE]

\* The normalised same-origin URLs a page can link to, as _extract_links
\* returns them (absolute, fragment and trailing slash stripped).
LinkUrls(base_domain) == { Url("http", base_domain, p, FALSE) : p \in Pages }

NoUrl == [scheme |-> "", netloc |-> "", page |-> 0, slash |-> FALSE]

\* ------------------------------------------------------------- sequences

Range(s) == { s[k] : k \in 1..Len(s) }

NoDuplicates(s) == \A a, b \in 1..Len(s) : s[a] = s[b] => a = b

\* sorted(set of URLs): ascending string order, which is page order here.
RECURSIVE SortedSeq(_)
DescendingSeq(S) ==
    CHOOSE q \in [1..Cardinality(S) -> S] :
        \A i, j \in 1..Cardinality(S) : i < j => q[i].page > q[j].page
SortedSeq(S) ==
    IF S = {} THEN << >>
    ELSE LET m == CHOOSE x \in S : \A y \in S : x.page <= y.page
         IN  << m >> \o SortedSeq(S \ {m})

\* ----------------------------------------------------------------- state

VARIABLES
    \* crawl()
    cpc,          \* position in crawl: idle, loop, fetch, sleep, returned, raised
    seed_arg,     \* the seed_url argument
    base_domain,  \* parsed_seed.netloc
    visited,      \* Set[str]
    discovered,   \* List[str]
    queue,        \* List[(url, depth)]
    current,      \* (current_url, depth) of the iteration in progress
    fetched,      \* history: the URLs handed to _fetch_page, in call order
    touched,      \* history: visited/discovered/queue were initialised
    links_found,  \* history: what _extract_links returned for the last page
    fetch_failed, \* history: the URLs for which _fetch_page returned None
    hrefs,        \* history: the <a href> values of the last page parsed
    enqueued,     \* history: every (url, depth) put on the queue, in order
    last_event,   \* history: the later of the last _fetch_page call ("fetch")
                  \* and the last asyncio.sleep ("sleep"); "none" before both
    \* SeedingOrchestrator.run()
    pc,           \* position in run
    brain,        \* the gate settings of self.brain
    report,       \* the report dict
    urls,         \* the list returned by the discovery call
    idx,          \* 1-based position of the for loop in urls
    packages,     \* number of packages of the URL in progress
    total_words,  \* total_words of the URL in progress
    calls,        \* history: collaborator calls made, in order, as <<name, arg>>
    raised_log,   \* history: stage exceptions raised, in order, as <<stage, url>>
    discovery,    \* how the discovery call ended: pending, raised, returned
    stage_log,    \* history: how the stage calls ended, in order, as
                  \* [stage, pos (position of the URL in urls), outcome]
    \* ProviderLayer.call_model(), one entry per invocation
    mpc,          \* position: idle, dispatch, backoff, done
    available,    \* available_providers: what the router returned to the call
    prompt,       \* len(prompt)
    pidx,         \* 1-based position of the for loop in available_providers
    attempt,      \* number of the attempt _dispatch_call is making
    last_error,   \* last_error, as << provider, error >>
    result,       \* how the invocation ended
    dispatch_log, \* history: attempts finished, as << provider, attempt, outcome >>
    overlapped,   \* history: the invocation began while another was in flight
    usage,        \* self.usage: <provider>_minutes_used of the shared object
    usage0,       \* history: usage before any invocation
    \* GapAnalyzer.analyze()
    gpc,          \* position: idle, scan, returned
    table_idx,    \* 1-based position of the for loop in SPECIALIST_TABLES
    gap_report,   \* the report dict, as {table: number of rows}
    scan_log,     \* history: tables scanned, as << table, outcome >>
    \* embed_packages()
    epc,          \* position: idle, returned
    pkgs,         \* the packages list (changed in place)
    pkgs0,        \* history: the packages list as passed in
    batch_log,    \* history: how the calls of embed_batch ended
    \* process_text_into_packages()
    rpc,          \* position: idle, split, summarize, adjust, classify,
                  \* returned, raised
    text,         \* the text, as the word counts of the pieces re.split finds
    sections,     \* sections, as word counts, once filtered
    sec_idx,      \* 1-based position of the for loop in sections
    word_count,   \* word_count: len(summary.split()) of the section in hand
    out_packages, \* the packages list
    out_words,    \* total_words
    model_calls,  \* history: what the rewrite awaited, in order: the model
                  \* calls, as << function, section >> (rewrites.py awaits
                  \* nothing else: it has no asyncio.sleep)
    \* insert_packages_to_supabase()
    wpc,          \* position: idle, client, loop, insert, returned, raised
    rows,         \* the packages list passed in
    row_idx,      \* 1-based position of the for loop in packages
    counts,       \* inserted_count, skipped_count, failed_count
    details,      \* the details list, as << chunk_index, status >>
    insert_log,   \* history: inserts handed to the executor, as
                  \* << chunk_index, table, outcome >>
    \* memory.get_supabase_client()
    client,       \* _client: 0 for None, else the number of the handle
    client_schema,\* the schema the handle was created with ("" without one)
    created,      \* history: how many handles create_client has returned
    get_log       \* history: the calls of get_supabase_client, in order, as
                  \* [caller, schema, handle (0 when the call raised),
                  \* error]

crawlVars == << cpc, seed_arg, base_domain, visited, discovered, queue,
                current, fetched, touched, links_found, fetch_failed, hrefs,
                enqueued, last_event >>

runVars == << pc, brain, report, urls, idx, packages, total_words, calls,
             raised_log, discovery, stage_log >>

providerVars == << mpc, available, prompt, pidx, attempt, last_error, result,
                  dispatch_log, overlapped, usage, usage0 >>

gapVars == << gpc, table_idx, gap_report, scan_log >>

embedVars == << epc, pkgs, pkgs0, batch_log >>

rewriteVars == << rpc, text, sections, sec_idx, word_count, out_packages,
                 out_words, model_calls >>

writerVars == << wpc, rows, row_idx, counts, details, insert_log >>

clientVars == << client, client_schema, created, get_log >>

vars == << crawlVars, runVars, providerVars, gapVars, embedVars, rewriteVars,
          writerVars, clientVars >>

nonCrawlVars == << runVars, providerVars, gapVars, embedVars,
    rewriteVars, writerVars, clientVars >>
nonRunVars == << crawlVars, providerVars, gapVars, embedVars,
    rewriteVars, writerVars, clientVars >>
nonProviderVars == << crawlVars, runVars, gapVars, embedVars,
    rewriteVars, writerVars, clientVars >>
nonGapVars == << crawlVars, runVars, providerVars, embedVars,
    rewriteVars, writerVars, clientVars >>
nonEmbedVars == << crawlVars, runVars, providerVars, gapVars,
    rewriteVars, writerVars, clientVars >>
nonRewriteVars == << crawlVars, runVars, providerVars, gapVars, embedVars,
    writerVars, clientVars >>
nonWriterVars == << crawlVars, runVars, providerVars, gapVars, embedVars,
    rewriteVars, clientVars >>
nonClientVars == << crawlVars, runVars, providerVars, gapVars, embedVars,
    rewriteVars, writerVars >>

\* ----------------------------------------------------------------- dicts

EmptyDict == [k \in {} |-> FALSE]

\* dict.get(key, default)
DictGet(d, key, default) == IF key \in DOMAIN d THEN d[key] ELSE default

\* The dicts that hold at most the one boolean entry `key`.
BoolDicts(key) == { EmptyDict } \cup { (key :> b) : b \in BOOLEAN }

\* ------------------------------------------------ components not running

CallIds == 1..NumCalls

\* last_error = ""
NoError == << "", "" >>

\* What call_model hands to its caller:
\*   raised      whether it ended in an exception (FALSE: a return statement)
\*   kind        which return statement: "offline" (line 113), "response"
\*               (line 124) or "unavailable" (line 130)
\*   provider, len, tokens   of a response: the backend, len(response) and
\*               the tokens charged
\*   last_error  of "unavailable": the error text put in the message
Returned(kind, provider, len, tokens, err) ==
    [raised |-> FALSE, kind |-> kind, provider |-> provider, len |-> len,
     tokens |-> tokens, last_error |-> err]

NoResult == Returned("none", "", 0, 0, NoError)

\* No call_model invocation has begun; there is no usage object.
ProviderIdle ==
    /\ mpc = [c \in CallIds |-> "idle"]
    /\ available = [c \in CallIds |-> << >>]
    /\ prompt = [c \in CallIds |-> 0]
    /\ pidx = [c \in CallIds |-> 0]
    /\ attempt = [c \in CallIds |-> 0]
    /\ last_error = [c \in CallIds |-> NoError]
    /\ result = [c \in CallIds |-> NoResult]
    /\ dispatch_log = [c \in CallIds |-> << >>]
    /\ overlapped = [c \in CallIds |-> FALSE]
    /\ usage = EmptyDict
    /\ usage0 = EmptyDict

\* analyze() is not executing
GapAnalyzerIdle ==
    /\ gpc = "idle"
    /\ table_idx = 0
    /\ gap_report = EmptyDict
    /\ scan_log = << >>

\* embed_packages() is not executing
EmbedderIdle ==
    /\ epc = "idle"
    /\ pkgs = << >>
    /\ pkgs0 = << >>
    /\ batch_log = << >>

\* inserted_count, skipped_count and failed_count at 0
NoCounts == [inserted |-> 0, skipped |-> 0, failed |-> 0]

\* process_text_into_packages() is not executing
RewriterIdle ==
    /\ rpc = "idle"
    /\ text = << >>
    /\ sections = << >>
    /\ sec_idx = 0
    /\ word_count = 0
    /\ out_packages = << >>
    /\ out_words = 0
    /\ model_calls = << >>

\* insert_packages_to_supabase() is not executing
WriterIdle ==
    /\ wpc = "idle"
    /\ rows = << >>
    /\ row_idx = 0
    /\ counts = NoCounts
    /\ details = << >>
    /\ insert_log = << >>

\* _client = None (memory.py:36): get_supabase_client() has not been called
ClientIdle ==
    /\ client = 0
    /\ client_schema = ""
    /\ created = 0
    /\ get_log = << >>

\* The components whose state the specifications of the other components
\* leave alone.
OthersIdle == RewriterIdle /\ WriterIdle /\ ClientIdle

\* ---------------------------------------------------------------- crawl()

QueueUrls(q) == { q[k][1] : k \in 1..Len(q) }

\* queue.pop(0): what is left of the queue
PopPeek(q) == q
Pop(q) == Tail(q)

\* while queue and len(discovered) < MAX_PAGES
LoopCondNoCap == queue # << >>
LoopCond == queue # << >> /\ Len(discovered) < MAX_PAGES

\* the for loop over sorted(new_links): append each link not yet queued
EnqueueAll(q, links, depth) ==
    q \o [k \in 1..Len(links) |-> << links[k], depth + 1 >>]
RECURSIVE Enqueue(_, _, _)
Enqueue(q, links, depth) ==
    IF links = << >> THEN q
    ELSE LET link == Head(links)
             q2 == IF link \notin QueueUrls(q)
                   THEN Append(q, << link, depth + 1 >>)
                   ELSE q
         IN  Enqueue(q2, Tail(links), depth)

\* run() is not executing
RunIdle ==
    /\ pc = "idle"
    /\ brain = [master_enabled |-> TRUE, kill_switches |-> EmptyDict,
                router_toggles |-> EmptyDict]
    /\ report = EmptyDict
    /\ urls = << >>
    /\ idx = 0
    /\ packages = 0
    /\ total_words = 0
    /\ calls = << >>
    /\ raised_log = << >>
    /\ discovery = "pending"
    /\ stage_log = << >>

CrawlStart ==
    /\ cpc = "idle"
    /\ seed_arg \in Seeds
    /\ base_domain = ""
    /\ visited = {}
    /\ discovered = << >>
    /\ queue = << >>
    /\ current = << NoUrl, 0 >>
    /\ fetched = << >>
    /\ touched = FALSE
    /\ links_found = {}
    /\ fetch_failed = {}
    /\ hrefs = {}
    /\ enqueued = << >>
    /\ last_event = "none"

CrawlInit ==
    /\ CrawlStart /\ RunIdle /\ ProviderIdle /\ GapAnalyzerIdle /\ EmbedderIdle
    /\ OthersIdle

\* if not parsed_seed.scheme or not parsed_seed.netloc: raise ValueError
SeedInvalidSchemeOnly(seed) == seed.scheme = ""
SeedInvalid(seed) == seed.scheme = "" \/ seed.netloc = ""

CrawlInvalidSeed ==
    /\ UNCHANGED nonCrawlVars
    /\ cpc = "idle"
    /\ SeedInvalid(seed_arg)
    /\ cpc' = "raised"
    /\ UNCHANGED << seed_arg, base_domain, visited, discovered, queue,
                    current, fetched, touched, links_found, fetch_failed,
                    hrefs, enqueued, last_event >>

CrawlBegin ==
    /\ UNCHANGED nonCrawlVars
    /\ cpc = "idle"
    /\ ~SeedInvalid(seed_arg)
    /\ base_domain' = seed_arg.netloc
    /\ visited' = {}
    /\ discovered' = << >>
    /\ queue' = << << Rstrip(seed_arg), 0 >> >>
    /\ enqueued' = << << Rstrip(seed_arg), 0 >> >>
    /\ touched' = TRUE
    /\ cpc' = "loop"
    /\ UNCHANGED << seed_arg, current, fetched, links_found, fetch_failed,
                    hrefs, last_event >>

CrawlLoopExit ==
    /\ UNCHANGED nonCrawlVars
    /\ cpc = "loop"
    /\ ~LoopCond
    /\ cpc' = "returned"
    /\ UNCHANGED << seed_arg, base_domain, visited, discovered, queue,
                    current, fetched, touched, links_found, fetch_failed,
                    hrefs, enqueued, last_event >>

\* visited.add(current_url)
MarkVisitedSkip(v, u) == v
MarkVisited(v, u) == v \cup {u}

\* One pass from the loop head to the await of _fetch_page (or to `continue`).
CrawlDequeue ==
    /\ UNCHANGED nonCrawlVars
    /\ cpc = "loop"
    /\ LoopCond
    /\ current' = Head(queue)
    /\ queue' = Pop(queue)
    /\ IF Head(queue)[1] \in visited
       THEN /\ cpc' = "loop"
            /\ UNCHANGED << visited, fetched, last_event >>
       ELSE /\ visited' = MarkVisited(visited, Head(queue)[1])
            /\ fetched' = Append(fetched, Head(queue)[1])
            /\ last_event' = "fetch"
            /\ cpc' = "fetch"
    /\ UNCHANGED << seed_arg, base_domain, discovered, touched, links_found,
                    fetch_failed, hrefs, enqueued >>

\* _fetch_page returned None (request error, HTTP error status or non-HTML)
CrawlFetchNone ==
    /\ UNCHANGED nonCrawlVars
    /\ cpc = "fetch"
    /\ fetch_failed' = fetch_failed \cup {current[1]}
    /\ cpc' = "loop"
    /\ UNCHANGED << seed_arg, base_domain, visited, discovered, queue,
                    current, fetched, touched, links_found, hrefs, enqueued,
                    last_event >>

\* discovered.append(current_url)
RecordPage(d, u) == Append(d, u)

\* if depth < MAX_DEPTH
NoDepthCap(depth) == TRUE
BelowDepthCap(depth) == depth < MAX_DEPTH

\* The rest of the iteration once _fetch_page has returned HTML, where
\* `links` is what _extract_links returns for it.
FetchHtml(links) ==
    /\ UNCHANGED nonCrawlVars
    /\ cpc = "fetch"
    /\ LET depth == current[2]
           new_links == links \ visited
           q2 == IF BelowDepthCap(depth)
                 THEN Enqueue(queue, SortedSeq(new_links), depth)
                 ELSE queue
       IN  /\ links_found' = links
           /\ discovered' = RecordPage(discovered, current[1])
           /\ queue' = q2
           /\ enqueued' = enqueued \o SubSeq(q2, Len(queue) + 1, Len(q2))
           /\ cpc' = IF q2 # << >> THEN "sleep" ELSE "loop"
    /\ UNCHANGED << seed_arg, base_domain, visited, current, fetched, touched,
                    fetch_failed, last_event >>

\* _fetch_page returned HTML whose links _extract_links reports as `links`.
CrawlFetchHtml ==
    /\ \E links \in SUBSET LinkUrls(base_domain) : FetchHtml(links)
    /\ UNCHANGED hrefs

\* The values of href a page can carry in its <a> tags, by what
\* _extract_links and _is_valid_url look at:
\*   page     a path of the site ("/docs"), alone or followed by "/", "#x"
\*   mailto   "mailto:a@h"
\*   ftp      "ftp://h/docs"
\*   offsite  "http://other/docs"
\*   asset    "/logo.png"
\*   tag      "/tag/news"
\*   query    "/docs?page=2"
Hrefs ==
    { [kind |-> "page", page |-> p] : p \in Pages } \cup
    { [kind |-> k, page |-> 1] :
        k \in {"mailto", "ftp", "offsite", "asset", "tag", "query"} }

\* if not href or href.startswith(("mailto:", "tel:", "javascript:"))
HrefSkipped(h) == h.kind = "mailto"

\* urljoin(current_url, href).split("#")[0].rstrip("/")
Absolute(h, domain) ==
    Url(IF h.kind = "ftp" THEN "ftp" ELSE "http",
        IF h.kind = "offsite" THEN "other" ELSE domain, h.page, FALSE)

SKIP_PATTERNS ==
    << "/tag/", "/category/", "/author/", "/page/\\d+", "?", "#", "/feed/",
       "/wp-", "/cdn-cgi/" >>

\* re.search(pattern, full_url): "?" is not a regular expression (there is
\* nothing for it to repeat), and compiling it raises re.error
Search(pattern, h) ==
    IF pattern = "?" THEN "raised"
    ELSE IF pattern = "/tag/" /\ h.kind = "tag" THEN "match"
    ELSE "none"

\* any(re.search(pattern, full_url) for pattern in SKIP_PATTERNS), from
\* pattern k on: any() stops at the first match, and an exception of the
\* generator ends it
RECURSIVE AnyPattern(_, _)
AnyPattern(h, k) ==
    IF k > Len(SKIP_PATTERNS) THEN "False"
    ELSE IF Search(SKIP_PATTERNS[k], h) = "match" THEN "True"
    ELSE IF Search(SKIP_PATTERNS[k], h) = "raised" THEN "raised"
    ELSE AnyPattern(h, k + 1)

\* _is_valid_url(absolute, base_domain); except Exception: return False
IsValidUrl(h, domain) ==
    IF Absolute(h, domain).scheme \notin {"http", "https"} THEN FALSE
    ELSE IF Absolute(h, domain).netloc # domain THEN FALSE
    ELSE IF h.kind = "asset" THEN FALSE
    ELSE AnyPattern(h, 1) = "False"

\* _extract_links(html, current_url, base_domain) for a page with the
\* hrefs hs
ExtractLinks(hs, domain) ==
    { Absolute(h, domain) :
        h \in { x \in hs : ~HrefSkipped(x) /\ IsValidUrl(x, domain) } }

\* _fetch_page returned HTML with the hrefs hs.
CrawlFetchPage ==
    \E hs \in SUBSET Hrefs :
        /\ FetchHtml(ExtractLinks(hs, base_domain))
        /\ hrefs' = hs

\* await asyncio.sleep(CRAWL_DELAY)
CrawlSleep ==
    /\ UNCHANGED nonCrawlVars
    /\ cpc = "sleep"
    /\ cpc' = "loop"
    /\ last_event' = "sleep"
    /\ UNCHANGED << seed_arg, base_domain, visited, discovered, queue,
                    current, fetched, touched, links_found, fetch_failed,
                    hrefs, enqueued >>

CrawlNext ==
    \/ CrawlInvalidSeed
    \/ CrawlBegin
    \/ CrawlLoopExit
    \/ CrawlDequeue
    \/ CrawlFetchNone
    \/ CrawlFetchHtml
    \/ CrawlSleep

SpecCrawl == CrawlInit /\ [][CrawlNext]_vars

SpecCrawlFair == SpecCrawl /\ WF_vars(CrawlNext)

\* crawl() with _extract_links and _is_valid_url as written.  The sleep is
\* not among its steps: the queue is empty whenever the seed's page has
\* been parsed.
CrawlPagesNext ==
    \/ CrawlInvalidSeed
    \/ CrawlBegin
    \/ CrawlLoopExit
    \/ CrawlDequeue
    \/ CrawlFetchNone
    \/ CrawlFetchPage

SpecCrawlPages == CrawlInit /\ [][CrawlPagesNext]_vars

\* ------------------------------------------- SeedingOrchestrator.run()

\* The crawl is not executing (run() never reaches it, see DiscoveryCall).
CrawlIdle ==
    /\ cpc = "idle"
    /\ seed_arg = NoUrl
    /\ base_domain = ""
    /\ visited = {}
    /\ discovered = << >>
    /\ queue = << >>
    /\ current = << NoUrl, 0 >>
    /\ fetched = << >>
    /\ touched = FALSE
    /\ links_found = {}
    /\ fetch_failed = {}
    /\ hrefs = {}
    /\ enqueued = << >>
    /\ last_event = "none"

\* The gate settings of BrainState: governance.master_enabled,
\* governance.kill_switches and learning.router_toggles.
Brains ==
    [ master_enabled : BOOLEAN,
      kill_switches  : BoolDicts("global"),
      router_toggles : BoolDicts("use_url") ]

\* report = {...} at the top of run
InitialReport(seed) ==
    [ seed_url             |-> seed,
      urls_discovered      |-> 0,
      urls_processed       |-> 0,
      urls_failed          |-> 0,
      total_packages       |-> 0,
      total_words          |-> 0,
      total_inserted       |-> 0,
      total_skipped        |-> 0,
      total_failed_inserts |-> 0,
      gaps_found           |-> EmptyDict,
      errors               |-> << >>,
      status               |-> "started" ]

ErrorEntry(msg, url) == [msg |-> msg, url |-> url]

\* run(seed) has been called and the report dict built.
RunInit ==
    /\ pc = "gate"
    /\ brain \in Brains
    /\ \E seed \in Seeds : report = InitialReport(seed)
    /\ urls = << >>
    /\ idx = 0
    /\ packages = 0
    /\ total_words = 0
    /\ calls = << >>
    /\ raised_log = << >>
    /\ discovery = "pending"
    /\ stage_log = << >>

\* STEP 1: the three checks in the order the code makes them.
GateOutcomeToggleFirst(b) ==
    IF ~b.master_enabled THEN "master"
    ELSE IF ~DictGet(b.router_toggles, "use_url", FALSE) THEN "toggle"
    ELSE IF DictGet(b.kill_switches, "global", FALSE) THEN "kill"
    ELSE "pass"
GateOutcome(b) ==
    IF ~b.master_enabled THEN "master"
    ELSE IF DictGet(b.kill_switches, "global", FALSE) THEN "kill"
    ELSE IF ~DictGet(b.router_toggles, "use_url", FALSE) THEN "toggle"
    ELSE "pass"

MsgMaster == "Blocked by governance - master_enabled is False"
MsgKill == "Blocked by governance - global kill switch is active"
MsgToggle == "Blocked by config - use_url toggle is False"

Blocked(msg) ==
    /\ report' = [report EXCEPT !.status = "blocked",
                                !.errors = Append(@, ErrorEntry(msg, NoUrl))]
    /\ pc' = "returned"
    /\ UNCHANGED << brain, urls, idx, packages, total_words, calls,
                    raised_log, discovery >>
    /\ UNCHANGED nonRunVars
    /\ UNCHANGED stage_log

GateMasterBlocked ==
    /\ pc = "gate"
    /\ GateOutcome(brain) = "master"
    /\ Blocked(MsgMaster)

GateKillBlocked ==
    /\ pc = "gate"
    /\ GateOutcome(brain) = "kill"
    /\ Blocked(MsgKill)

GateToggleBlocked ==
    /\ pc = "gate"
    /\ GateOutcome(brain) = "toggle"
    /\ Blocked(MsgToggle)

GatePassed ==
    /\ pc = "gate"
    /\ GateOutcome(brain) = "pass"
    /\ pc' = "discovery"
    /\ UNCHANGED << brain, report, urls, idx, packages, total_words, calls,
                    raised_log, discovery >>
    /\ UNCHANGED nonRunVars
    /\ UNCHANGED stage_log

\* The names crawler.py binds at module level.
CrawlerModuleNames ==
    { "asyncio", "logging", "re", "Set", "List", "Optional", "urljoin",
      "urlparse", "requests", "BeautifulSoup", "logger", "MAX_PAGES",
      "REQUEST_TIMEOUT", "CRAWL_DELAY", "MAX_DEPTH", "SKIP_EXTENSIONS",
      "SKIP_PATTERNS", "_is_valid_url", "_extract_links", "_fetch_page",
      "crawl" }

\* The attribute of module crawler that run() calls: crawler.crawler(seed_url)
DiscoveryAttr == "crawler"

\* STEP 2: urls = await crawler.crawler(seed_url).  The attribute lookup
\* comes first; a name the module does not bind raises AttributeError inside
\* the try block, before anything is called.
DiscoveryCall ==
    /\ pc = "discovery"
    /\ IF DiscoveryAttr \in CrawlerModuleNames
       THEN /\ calls' = Append(calls, << DiscoveryAttr, report.seed_url >>)
            /\ pc' = "crawling"
            /\ UNCHANGED << raised_log, discovery >>
       ELSE /\ raised_log' = Append(raised_log, << "discovery", NoUrl >>)
            /\ discovery' = "raised"
            /\ pc' = "discovery_raised"
            /\ UNCHANGED calls
    /\ UNCHANGED << brain, report, urls, idx, packages, total_words >>
    /\ UNCHANGED nonRunVars
    /\ UNCHANGED stage_log

\* except Exception as e: status failed, "Crawler failed: ...", return
DiscoveryExcept ==
    /\ pc = "discovery_raised"
    /\ report' = [report EXCEPT !.status = "failed",
                                !.errors = Append(@, ErrorEntry("Crawler failed", NoUrl))]
    /\ pc' = "returned"
    /\ UNCHANGED << brain, urls, idx, packages, total_words, calls,
                    raised_log, discovery >>
    /\ UNCHANGED nonRunVars
    /\ UNCHANGED stage_log

\* The lists a discovery call can hand back.
UrlLists == { [k \in 1..n |-> Url("http", "h", k, FALSE)] : n \in 0..MaxUrls }

\* run() at the completion of the call on line 93: the gate has passed and
\* the call either raised or returned a list.
StagesInit ==
    /\ brain \in { b \in Brains : GateOutcome(b) = "pass" }
    /\ \E seed \in { sd \in Seeds : sd.page = 1 } :
         /\ report = InitialReport(seed)
         /\ calls = << << "crawl", seed >> >>
    /\ \/ /\ pc = "discovery_raised"
          /\ discovery = "raised"
          /\ urls = << >>
          /\ raised_log = << << "discovery", NoUrl >> >>
       \/ /\ pc = "discovery_returned"
          /\ discovery = "returned"
          /\ urls \in UrlLists
          /\ raised_log = << >>
    /\ idx = 0
    /\ packages = 0
    /\ total_words = 0
    /\ stage_log = << >>

\* if not urls
NoUrlsNever(u) == FALSE
NoUrls(u) == u = << >>

\* the for statement: the position after list position i (the loop looks at
\* the list only, not at the gate settings)
LoopPcRechecksGate(i) ==
    IF i > Len(urls) \/ GateOutcome(brain) # "pass" THEN "gap" ELSE "fetch"
LoopPc(i) == IF i > Len(urls) THEN "gap" ELSE "fetch"

\* report["urls_discovered"] = len(urls); if not urls: failed, return
DiscoveryReturned ==
    /\ pc = "discovery_returned"
    /\ IF NoUrls(urls)
       THEN /\ report' = [report EXCEPT
                            !.urls_discovered = Len(urls),
                            !.status = "failed",
                            !.errors = Append(@, ErrorEntry("Crawler returned no URLs", NoUrl))]
            /\ pc' = "returned"
            /\ UNCHANGED idx
       ELSE /\ report' = [report EXCEPT !.urls_discovered = Len(urls)]
            /\ idx' = 1
            /\ pc' = LoopPc(1)
    /\ UNCHANGED << brain, urls, packages, total_words, calls, raised_log,
                    discovery >>
    /\ UNCHANGED nonRunVars
    /\ UNCHANGED stage_log

\* try: ... except Exception: every stage call sits in one
CaughtExceptGap(stage) == stage # "gap"
Caught(stage) == TRUE

\* `continue` in a failure branch: the loop goes on with the next position
BreakAfterFailure(i) == Len(urls) + 1
NextAfterFailure(i) == i + 1

\* report["urls_failed"] += 1; report["errors"].append(f"<msg> {url}..."); continue
FailUrlNoContinue(msg) ==
    /\ report' = [report EXCEPT !.urls_failed = @ + 1,
                                !.errors = Append(@, ErrorEntry(msg, urls[idx]))]
    /\ idx' = IF pc = "insert" THEN idx + 1 ELSE idx
    /\ pc' = CASE pc = "fetch" -> "rewrite"
              [] pc = "rewrite" -> "embed"
              [] pc = "embed" -> "insert"
              [] OTHER -> LoopPc(idx + 1)
FailUrl(msg) ==
    /\ report' = [report EXCEPT !.urls_failed = @ + 1,
                                !.errors = Append(@, ErrorEntry(msg, urls[idx]))]
    /\ idx' = NextAfterFailure(idx)
    /\ pc' = LoopPc(NextAfterFailure(idx))

StageMsg(stage) ==
    CASE stage = "fetch"   -> "Fetch failed for"
      [] stage = "rewrite" -> "Rewrite failed for"
      [] stage = "embed"   -> "Embedding failed for"
      [] stage = "insert"  -> "Insert failed for"

\* The stage call of the URL in progress ended with `outcome`.
LogStage(stage, outcome) ==
    stage_log' =
        Append(stage_log, [stage |-> stage, pos |-> idx, outcome |-> outcome])

\* A stage call of the URL in progress raised.
StageRaises(stage) ==
    /\ calls' = Append(calls, << stage, urls[idx] >>)
    /\ LogStage(stage, "raised")
    /\ raised_log' = Append(raised_log, << stage, urls[idx] >>)
    /\ IF Caught(stage)
       THEN FailUrl(StageMsg(stage))
       ELSE /\ pc' = "raised"
            /\ UNCHANGED << report, idx >>
    /\ UNCHANGED << brain, urls, packages, total_words, discovery >>
    /\ UNCHANGED nonRunVars

\* STEP 3: run_learning_pipeline(url)
FetchRaises ==
    /\ pc = "fetch"
    /\ StageRaises("fetch")

FetchEmpty ==
    /\ pc = "fetch"
    /\ calls' = Append(calls, << "fetch", urls[idx] >>)
    /\ LogStage("fetch", "empty")
    /\ FailUrl("Empty content returned for")
    /\ UNCHANGED << brain, urls, packages, total_words, raised_log, discovery >>
    /\ UNCHANGED nonRunVars

FetchOk ==
    /\ pc = "fetch"
    /\ calls' = Append(calls, << "fetch", urls[idx] >>)
    /\ LogStage("fetch", "ok")
    /\ pc' = "rewrite"
    /\ UNCHANGED << brain, report, urls, idx, packages, total_words,
                    raised_log, discovery >>
    /\ UNCHANGED nonRunVars

\* STEP 4: rewrite_to_packages(raw_text)
RewriteRaises ==
    /\ pc = "rewrite"
    /\ StageRaises("rewrite")

RewriteNoPackages ==
    /\ pc = "rewrite"
    /\ calls' = Append(calls, << "rewrite", urls[idx] >>)
    /\ packages' = 0
    /\ total_words' = 0
    /\ LogStage("rewrite", "empty")
    /\ FailUrl("No packages produced for")
    /\ UNCHANGED << brain, urls, raised_log, discovery >>
    /\ UNCHANGED nonRunVars

RewriteOk ==
    /\ pc = "rewrite"
    /\ calls' = Append(calls, << "rewrite", urls[idx] >>)
    /\ packages' \in 1..MaxPackages
    /\ total_words' \in 1..MaxWords
    /\ LogStage("rewrite", "ok")
    /\ pc' = "embed"
    /\ UNCHANGED << brain, report, urls, idx, raised_log, discovery >>
    /\ UNCHANGED nonRunVars

\* STEP 5: embed_packages(packages)
EmbedRaises ==
    /\ pc = "embed"
    /\ StageRaises("embed")

EmbedOk ==
    /\ pc = "embed"
    /\ calls' = Append(calls, << "embed", urls[idx] >>)
    /\ LogStage("embed", "ok")
    /\ pc' = "insert"
    /\ UNCHANGED << brain, report, urls, idx, packages, total_words,
                    raised_log, discovery >>
    /\ UNCHANGED nonRunVars

\* STEP 6: insert_packages_to_supabase(packages, url)
InsertRaises ==
    /\ pc = "insert"
    /\ StageRaises("insert")

\* The summaries the writer returns for n packages: its loop gives every
\* package one of inserted, skipped, failed.
InsertResults(n) ==
    { [inserted_count |-> a, skipped_count |-> b, failed_count |-> n - a - b] :
        a \in 0..n, b \in 0..n } \cap
    [inserted_count : 0..n, skipped_count : 0..n, failed_count : 0..n]

\* report["total_packages"] += len(packages); ...; report["urls_processed"] += 1
RecordInsertOnly(r, n, words, res) ==
    [r EXCEPT !.total_packages = @ + n,
              !.total_words = @ + words,
              !.total_inserted = @ + res.inserted_count,
              !.total_skipped = @ + res.skipped_count,
              !.total_failed_inserts = @ + res.failed_count]
RecordInsert(r, n, words, res) ==
    [r EXCEPT !.total_packages = @ + n,
              !.total_words = @ + words,
              !.total_inserted = @ + res.inserted_count,
              !.total_skipped = @ + res.skipped_count,
              !.total_failed_inserts = @ + res.failed_count,
              !.urls_processed = @ + 1]

InsertOk ==
    /\ pc = "insert"
    /\ calls' = Append(calls, << "insert", urls[idx] >>)
    /\ LogStage("insert", "ok")
    /\ \E res \in InsertResults(packages) :
         report' = RecordInsert(report, packages, total_words, res)
    /\ idx' = idx + 1
    /\ pc' = LoopPc(idx + 1)
    /\ UNCHANGED << brain, urls, packages, total_words, raised_log, discovery >>
    /\ UNCHANGED nonRunVars

\* FINAL STATUS
FinalStatusFailedFirst(r) ==
    IF r.urls_failed > 0 THEN "partial"
    ELSE IF r.urls_processed = 0 THEN "failed"
    ELSE "success"
FinalStatus(r) ==
    IF r.urls_processed = 0 THEN "failed"
    ELSE IF r.urls_failed > 0 THEN "partial"
    ELSE "success"

\* config.SPECIALIST_TABLES, the tables analyze() loops over and the tables
\* classify_section lists in its prompt: three of the tables of memory.py
SPECIALIST_TABLES == << "seo_junk", "analytics_junk", "master_strategy_junk" >>

\* The tables the gap analysis can report on.
GapTables == Range(SPECIALIST_TABLES)

\* {table: len(rows)} over the tables analyze() reports (those with rows)
GapCounts ==
    UNION { [T -> 1..MaxGapRows] : T \in SUBSET GapTables }

\* except Exception as e: report["errors"].append(f"Gap analysis failed: ...")
GapFailureCountsUrl(r) ==
    [r EXCEPT !.urls_failed = @ + 1,
              !.errors = Append(@, ErrorEntry("Gap analysis failed", NoUrl))]
GapFailureReport(r) ==
    [r EXCEPT !.errors = Append(@, ErrorEntry("Gap analysis failed", NoUrl))]

\* STEP 7: the gap analysis raised (get_supabase_client or the analyzer)
GapRaises ==
    /\ pc = "gap"
    /\ calls' = Append(calls, << "gap", NoUrl >>)
    /\ raised_log' = Append(raised_log, << "gap", NoUrl >>)
    /\ IF Caught("gap")
       THEN LET r == GapFailureReport(report)
            IN  /\ report' = [r EXCEPT !.status = FinalStatus(r)]
                /\ pc' = "returned"
       ELSE /\ pc' = "raised"
            /\ UNCHANGED report
    /\ UNCHANGED << brain, urls, idx, packages, total_words, discovery >>
    /\ UNCHANGED nonRunVars
    /\ UNCHANGED stage_log

GapOk ==
    /\ pc = "gap"
    /\ calls' = Append(calls, << "gap", NoUrl >>)
    /\ \E g \in GapCounts :
         LET r == [report EXCEPT !.gaps_found = g]
         IN  report' = [r EXCEPT !.status = FinalStatus(r)]
    /\ pc' = "returned"
    /\ UNCHANGED << brain, urls, idx, packages, total_words, raised_log,
                    discovery >>
    /\ UNCHANGED nonRunVars
    /\ UNCHANGED stage_log

GateNext ==
    \/ GateMasterBlocked
    \/ GateKillBlocked
    \/ GateToggleBlocked
    \/ GatePassed
    \/ DiscoveryCall
    \/ DiscoveryExcept

StagesNext ==
    \/ DiscoveryExcept
    \/ DiscoveryReturned
    \/ FetchRaises
    \/ FetchEmpty
    \/ FetchOk
    \/ RewriteRaises
    \/ RewriteNoPackages
    \/ RewriteOk
    \/ EmbedRaises
    \/ EmbedOk
    \/ InsertRaises
    \/ InsertOk
    \/ GapRaises
    \/ GapOk

Init ==
    /\ RunInit /\ CrawlIdle /\ ProviderIdle /\ GapAnalyzerIdle /\ EmbedderIdle
    /\ OthersIdle

Next == GateNext

Spec == Init /\ [][Next]_vars

InitStages ==
    /\ StagesInit /\ CrawlIdle /\ ProviderIdle /\ GapAnalyzerIdle /\ EmbedderIdle
    /\ OthersIdle

SpecStages == InitStages /\ [][StagesNext]_vars

InitRun ==
    /\ RunInit \/ StagesInit
    /\ CrawlIdle /\ ProviderIdle /\ GapAnalyzerIdle /\ EmbedderIdle
    /\ OthersIdle

NextRun == GateNext \/ StagesNext

SpecRun == InitRun /\ [][NextRun]_vars

\* ---------------------------- run() while the gate settings are changed

\* The BrainState object is shared by the server's handlers (server.py:33)
\* and its settings are plain attributes: while run() waits at one of its
\* awaits the operator activates the global kill switch, turns
\* master_enabled off or turns the use_url toggle off.
OperatorChangesGate ==
    /\ pc \notin {"idle", "returned", "raised"}
    /\ \/ brain' = [brain EXCEPT !.kill_switches = ("global" :> TRUE)]
       \/ brain' = [brain EXCEPT !.master_enabled = FALSE]
       \/ brain' = [brain EXCEPT !.router_toggles = ("use_url" :> FALSE)]
    /\ brain' # brain
    /\ UNCHANGED << pc, report, urls, idx, packages, total_words, calls,
                    raised_log, discovery, stage_log >>
    /\ UNCHANGED nonRunVars

\* run("http://h") at its first line or at the completion of the discovery
\* call, as in SpecRun
InitGateRace ==
    /\ InitRun
    /\ report.seed_url = Url("http", "h", 1, FALSE)

NextGateRace == NextRun \/ OperatorChangesGate

SpecGateRace == InitGateRace /\ [][NextGateRace]_vars

\* ------------------------------------------- ProviderLayer.call_model()

\* The backends _dispatch_call can dispatch to.
Providers == {"openai", "groq", "openrouter"}

\* What router.available_providers() can return: available backends in the
\* order of the routing strategy, each at most once.
ProviderLists ==
    { s \in UNION { [1..n -> Providers] : n \in 0..MaxProviders } :
        NoDuplicates(s) }

\* How one attempt of _dispatch_call can fail:
\*   "transient"  httpx.ConnectError or httpx.TimeoutException
\*   "status"     httpx.HTTPStatusError: the one _http_post raises on status
\*                429 (quota), or that of resp.raise_for_status() (auth, bad
\*                request)
DispatchErrors == {"transient", "status"}

\* retry_if_exception_type((httpx.ConnectError, httpx.TimeoutException))
Retryable(err) == err = "transient"

\* stop_after_attempt(2)
STOP_AFTER_ATTEMPT == 2

\* @retry(...) on _dispatch_call: whether attempt number n that failed with
\* err is followed by another attempt (reraise=True: otherwise err is raised)
RetryAnyError(n, err) == n < STOP_AFTER_ATTEMPT
RetryOnceMore(n, err) == Retryable(err) /\ n < STOP_AFTER_ATTEMPT + 1
RetryAgain(n, err) == Retryable(err) /\ n < STOP_AFTER_ATTEMPT

\* tokens = max(1, (len(prompt) + len(response)) // 4)
Tokens(prompt_len, response_len) ==
    LET t == (prompt_len + response_len) \div 4
    IN  IF t > 1 THEN t ELSE 1

\* save_usage(self.usage): persists the object and returns; the counters in
\* memory stay as they are
SaveUsage(u) == u

\* _increment_usage(provider, tokens / tokens_per_minute).  A counter is held
\* in units of 1/tokens_per_minute minutes, so that the addition of
\* tokens / tokens_per_minute minutes is the addition of `tokens`.  Without a
\* usage object, or without the attribute, nothing is recorded.
IncrementUsageAll(u, provider, tokens) == [q \in DOMAIN u |-> u[q] + tokens]
IncrementUsageOverwrite(u, provider, tokens) ==
    IF provider \in DOMAIN u THEN [u EXCEPT ![provider] = tokens] ELSE u
IncrementUsage(u, provider, tokens) ==
    IF provider \in DOMAIN u
    THEN SaveUsage([u EXCEPT ![provider] = @ + tokens])
    ELSE u

\* The usage objects a ProviderLayer can be built with: none, or one with a
\* counter for every backend.
UsageInits ==
    { EmptyDict } \cup { [p \in Providers |-> n] : n \in 0..MaxInitialUsage }

\* Before the invocations `ids` of call_model begin.
ProviderStart(ids) ==
    /\ mpc = [c \in CallIds |-> IF c \in ids THEN "idle" ELSE "unused"]
    /\ available = [c \in CallIds |-> << >>]
    /\ \E n \in {0, MaxLen} : prompt = [c \in CallIds |-> n]
    /\ pidx = [c \in CallIds |-> 0]
    /\ attempt = [c \in CallIds |-> 0]
    /\ last_error = [c \in CallIds |-> NoError]
    /\ result = [c \in CallIds |-> NoResult]
    /\ dispatch_log = [c \in CallIds |-> << >>]
    /\ overlapped = [c \in CallIds |-> FALSE]
    /\ usage \in UsageInits
    /\ usage0 = usage

InFlight(c) == mpc[c] \in {"dispatch", "backoff"}

\* the backend of the loop iteration in progress
Provider(c) == available[c][pidx[c]]

\* if not available_providers: return "Error: All providers offline ..."
CallNoProviders(c) ==
    /\ mpc[c] = "idle"
    /\ available' = [available EXCEPT ![c] = << >>]
    /\ result' = [result EXCEPT ![c] = Returned("offline", "", 0, 0, NoError)]
    /\ mpc' = [mpc EXCEPT ![c] = "done"]
    /\ UNCHANGED << prompt, pidx, attempt, last_error, dispatch_log,
                    overlapped, usage, usage0 >>
    /\ UNCHANGED nonProviderVars

\* available_providers is not empty: the for loop starts, up to the first await
CallBegin(c) ==
    /\ mpc[c] = "idle"
    /\ \E prov \in ProviderLists \ { << >> } :
         available' = [available EXCEPT ![c] = prov]
    /\ pidx' = [pidx EXCEPT ![c] = 1]
    /\ attempt' = [attempt EXCEPT ![c] = 1]
    /\ overlapped' = [overlapped EXCEPT ![c] = \E d \in CallIds : InFlight(d)]
    /\ mpc' = [mpc EXCEPT ![c] = "dispatch"]
    /\ UNCHANGED << prompt, last_error, result, dispatch_log, usage, usage0 >>
    /\ UNCHANGED nonProviderVars

Logged(c, outcome) ==
    [dispatch_log EXCEPT ![c] = Append(@, << Provider(c), attempt[c], outcome >>)]

\* the attempt failed and tenacity schedules another one on the same backend
DispatchRetry(c) ==
    /\ mpc[c] = "dispatch"
    /\ \E err \in DispatchErrors :
         /\ RetryAgain(attempt[c], err)
         /\ dispatch_log' = Logged(c, err)
    /\ attempt' = [attempt EXCEPT ![c] = @ + 1]
    /\ mpc' = [mpc EXCEPT ![c] = "backoff"]
    /\ UNCHANGED << available, prompt, pidx, last_error, result, overlapped,
                    usage, usage0 >>
    /\ UNCHANGED nonProviderVars

\* wait_random_exponential(min=1, max=5) between two attempts
Backoff(c) ==
    /\ mpc[c] = "backoff"
    /\ mpc' = [mpc EXCEPT ![c] = "dispatch"]
    /\ UNCHANGED << available, prompt, pidx, attempt, last_error, result,
                    dispatch_log, overlapped, usage, usage0 >>
    /\ UNCHANGED nonProviderVars

\* last_error = str(e)
LastErrorFirst(old, new) == IF old = NoError THEN new ELSE old
LastError(old, new) == new

\* except Exception as e: last_error = str(e); continue -- and, when the
\* list is used up, return "Service temporarily unavailable. (Last error: ...)"
AfterFailure(c, err) ==
    LET e == LastError(last_error[c], << Provider(c), err >>)
    IN  /\ last_error' = [last_error EXCEPT ![c] = e]
        /\ IF pidx[c] < Len(available[c])
           THEN /\ pidx' = [pidx EXCEPT ![c] = @ + 1]
                /\ attempt' = [attempt EXCEPT ![c] = 1]
                /\ UNCHANGED << mpc, result >>
           ELSE /\ result' = [result EXCEPT
                                ![c] = Returned("unavailable", "", 0, 0, e)]
                /\ mpc' = [mpc EXCEPT ![c] = "done"]
                /\ UNCHANGED << pidx, attempt >>

\* the attempt failed and _dispatch_call raises the error to call_model
DispatchFails(c) ==
    /\ mpc[c] = "dispatch"
    /\ \E err \in DispatchErrors :
         /\ ~RetryAgain(attempt[c], err)
         /\ dispatch_log' = Logged(c, err)
         /\ AfterFailure(c, err)
    /\ UNCHANGED << available, prompt, overlapped, usage, usage0 >>
    /\ UNCHANGED nonProviderVars

\* the backend answered with "content": null, so that len(response) raises
\* TypeError inside the try block
DispatchNullContent(c) ==
    /\ mpc[c] = "dispatch"
    /\ dispatch_log' = Logged(c, "TypeError")
    /\ AfterFailure(c, "TypeError")
    /\ UNCHANGED << available, prompt, overlapped, usage, usage0 >>
    /\ UNCHANGED nonProviderVars

\* the backend answered: tokens, _increment_usage, return response (there is
\* no await between the answer and the return)
DispatchOk(c) ==
    /\ mpc[c] = "dispatch"
    /\ dispatch_log' = Logged(c, "ok")
    /\ \E len \in {0, MaxLen} :
         LET tokens == Tokens(prompt[c], len)
         IN  /\ usage' = IncrementUsage(usage, Provider(c), tokens)
             /\ result' = [result EXCEPT
                    ![c] = Returned("response", Provider(c), len, tokens, NoError)]
    /\ mpc' = [mpc EXCEPT ![c] = "done"]
    /\ UNCHANGED << available, prompt, pidx, attempt, last_error, overlapped,
                    usage0 >>
    /\ UNCHANGED nonProviderVars

ProviderNext ==
    \E c \in CallIds :
        \/ CallNoProviders(c)
        \/ CallBegin(c)
        \/ DispatchRetry(c)
        \/ Backoff(c)
        \/ DispatchFails(c)
        \/ DispatchNullContent(c)
        \/ DispatchOk(c)

\* one invocation
InitProvider ==
    /\ ProviderStart({1})
    /\ CrawlIdle /\ RunIdle /\ GapAnalyzerIdle /\ EmbedderIdle
    /\ OthersIdle

SpecProvider == InitProvider /\ [][ProviderNext]_vars

\* NumCalls invocations, each started at any time
InitConcurrent ==
    /\ ProviderStart(CallIds)
    /\ CrawlIdle /\ RunIdle /\ GapAnalyzerIdle /\ EmbedderIdle
    /\ OthersIdle

SpecConcurrent == InitConcurrent /\ [][ProviderNext]_vars

\* ---------------------------------------------- GapAnalyzer.analyze()

\* How _find_empty_rows(table) can end:
\*   "raised"  the client raised
\*   "none"    the response holds no data (`data or []` gives [])
\*   "rows"    the response holds n rows, n >= 0
ScanOutcomes ==
    { [kind |-> "raised", n |-> 0], [kind |-> "none", n |-> 0] }
        \cup { [kind |-> "rows", n |-> k] : k \in 0..MaxGapRows }

GapStart ==
    /\ gpc = "idle"
    /\ table_idx = 0
    /\ gap_report = EmptyDict
    /\ scan_log = << >>

\* report = {}; the for loop starts
AnalyzeBegin ==
    /\ gpc = "idle"
    /\ gpc' = "scan"
    /\ table_idx' = 1
    /\ gap_report' = EmptyDict
    /\ UNCHANGED scan_log
    /\ UNCHANGED nonGapVars

\* except Exception: logger.exception(...) -- the loop goes on with the
\* table that follows
AbortAfterError(i) == Len(SPECIALIST_TABLES) + 1
NextTableAfterError(i) == i + 1

\* _find_empty_rows raised for the table in progress
ScanRaises ==
    /\ gpc = "scan"
    /\ table_idx <= Len(SPECIALIST_TABLES)
    /\ scan_log' = Append(scan_log, << SPECIALIST_TABLES[table_idx], "raised", 0 >>)
    /\ table_idx' = NextTableAfterError(table_idx)
    /\ UNCHANGED << gpc, gap_report >>
    /\ UNCHANGED nonGapVars

\* if empty_rows: report[table] = empty_rows
RecordRowsAlways(r, table, n) ==
    [t \in DOMAIN r \cup {table} |-> IF t = table THEN n ELSE r[t]]
RecordRows(r, table, n) ==
    IF n > 0 THEN [t \in DOMAIN r \cup {table} |-> IF t = table THEN n ELSE r[t]]
    ELSE r

\* _find_empty_rows returned for the table in progress
ScanReturns ==
    /\ gpc = "scan"
    /\ table_idx <= Len(SPECIALIST_TABLES)
    /\ \E o \in ScanOutcomes :
         /\ o.kind # "raised"
         /\ scan_log' = Append(scan_log,
                               << SPECIALIST_TABLES[table_idx], o.kind, o.n >>)
         /\ gap_report' = RecordRows(gap_report, SPECIALIST_TABLES[table_idx], o.n)
    /\ table_idx' = table_idx + 1
    /\ UNCHANGED gpc
    /\ UNCHANGED nonGapVars

\* return report
AnalyzeReturn ==
    /\ gpc = "scan"
    /\ table_idx > Len(SPECIALIST_TABLES)
    /\ gpc' = "returned"
    /\ UNCHANGED << table_idx, gap_report, scan_log >>
    /\ UNCHANGED nonGapVars

GapNext ==
    \/ AnalyzeBegin
    \/ ScanRaises
    \/ ScanReturns
    \/ AnalyzeReturn

InitGap ==
    /\ GapStart /\ CrawlIdle /\ RunIdle /\ ProviderIdle /\ EmbedderIdle
    /\ OthersIdle

SpecGap == InitGap /\ [][GapNext]_vars

\* --------------------------------------- run(): the gap analysis step

\* run() at the call analyzer.analyze() on orchestrator.py:194, after a loop
\* over one URL whose fetch returned no text; get_supabase_client() has
\* returned the handle.
AuditInit ==
    /\ pc = "analyzing"
    /\ brain \in { b \in Brains : GateOutcome(b) = "pass" }
    /\ urls = << Url("http", "h", 1, FALSE) >>
    /\ idx = 2
    /\ report = [InitialReport(urls[1]) EXCEPT
                   !.urls_discovered = 1,
                   !.urls_failed = 1,
                   !.errors = << ErrorEntry("Empty content returned for",
                                            urls[1]) >>]
    /\ packages = 0
    /\ total_words = 0
    /\ calls = << << "crawl", urls[1] >>, << "fetch", urls[1] >>,
                  << "gap", NoUrl >> >>
    /\ raised_log = << >>
    /\ discovery = "returned"
    /\ stage_log = << [stage |-> "fetch", pos |-> 1, outcome |-> "empty"] >>

\* gaps = analyzer.analyze() returned:
\* report["gaps_found"] = {table: len(rows) for table, rows in gaps.items()}
\* and the final status
AuditReturns ==
    /\ pc = "analyzing"
    /\ gpc = "returned"
    /\ LET r == [report EXCEPT !.gaps_found = gap_report]
       IN  report' = [r EXCEPT !.status = FinalStatus(r)]
    /\ pc' = "returned"
    /\ UNCHANGED << brain, urls, idx, packages, total_words, calls,
                    raised_log, discovery, stage_log >>
    /\ UNCHANGED nonRunVars

AuditNext ==
    \/ AnalyzeBegin
    \/ ScanRaises
    \/ ScanReturns
    \/ AnalyzeReturn
    \/ AuditReturns

InitAudit ==
    /\ AuditInit /\ GapStart
    /\ CrawlIdle /\ ProviderIdle /\ EmbedderIdle /\ OthersIdle

SpecAudit == InitAudit /\ [][AuditNext]_vars

\* ------------------------------------------------------ embed_packages()

\* The content strings a package can hold; a package without the key reads
\* as "" (pkg.get("content", "")).
Contents == {"", " ", "text", " text "}

\* str.strip()
Strip(content) == IF content \in {"", " "} THEN "" ELSE "text"

\* content and content.strip()
NonBlank(content) == content # "" /\ Strip(content) # ""

\* A package as embed_packages sees it: its content and its "embedding"
\* entry, which is "absent" (no key), "None" (as rewrites.py:92 builds it)
\* or "vector".
PackageLists ==
    UNION { [1..n -> [content : Contents, embedding : {"absent", "None"}]] :
              n \in 0..MaxEmbedPackages }

\* indices_to_embed: the positions of the packages with non-blank content
IndicesToEmbed(p) ==
    LET Keep(k) == NonBlank(p[k].content)
    IN  SelectSeq([k \in 1..Len(p) |-> k], Keep)

\* else: pkg["embedding"] = None
MarkBlank(p) ==
    [k \in 1..Len(p) |->
        IF NonBlank(p[k].content) THEN p[k]
        ELSE [p[k] EXCEPT !.embedding = "None"]]

\* LocalEmbedder.embed_batch(texts): one vector per text, or [] when
\* model.encode raised (the exception is logged and swallowed)
EmbedBatch(n, encode_ok) ==
    IF n = 0 THEN << >>
    ELSE IF encode_ok THEN [k \in 1..n |-> "vector"]
    ELSE << >>

\* for idx, vector in zip(indices_to_embed, vectors):
\*     packages[idx]["embedding"] = vector
Attach(p, indices, vectors) ==
    LET m == IF Len(indices) < Len(vectors) THEN Len(indices) ELSE Len(vectors)
    IN  [k \in 1..Len(p) |->
            IF \E j \in 1..m : indices[j] = k
            THEN [p[k] EXCEPT !.embedding =
                    vectors[CHOOSE j \in 1..m : indices[j] = k]]
            ELSE p[k]]

EmbedStart ==
    /\ epc = "idle"
    /\ pkgs \in PackageLists
    /\ pkgs0 = pkgs
    /\ batch_log = << >>

\* if not packages: return packages
EmbedEmptyList ==
    /\ epc = "idle"
    /\ pkgs = << >>
    /\ epc' = "returned"
    /\ UNCHANGED << pkgs, pkgs0, batch_log >>
    /\ UNCHANGED nonEmbedVars

\* no package has content to embed: embed_batch is not called
EmbedNoTexts ==
    /\ epc = "idle"
    /\ pkgs # << >>
    /\ IndicesToEmbed(pkgs) = << >>
    /\ pkgs' = MarkBlank(pkgs)
    /\ epc' = "returned"
    /\ UNCHANGED << pkgs0, batch_log >>
    /\ UNCHANGED nonEmbedVars

\* embed_batch is called and the vectors it returns are attached
EmbedBatchCalled(encode_ok) ==
    LET indices == IndicesToEmbed(pkgs)
    IN  /\ epc = "idle"
        /\ indices # << >>
        /\ pkgs' = Attach(MarkBlank(pkgs), indices,
                          EmbedBatch(Len(indices), encode_ok))
        /\ batch_log' = Append(batch_log, encode_ok)
        /\ epc' = "returned"
        /\ UNCHANGED pkgs0
        /\ UNCHANGED nonEmbedVars

\* model.encode returned the embeddings
EmbedBatchOk ==
    /\ epc = "idle"
    /\ EmbedBatchCalled(TRUE)

\* model.encode raised
EmbedBatchFails ==
    /\ epc = "idle"
    /\ EmbedBatchCalled(FALSE)

EmbedNext ==
    \/ EmbedEmptyList
    \/ EmbedNoTexts
    \/ EmbedBatchOk
    \/ EmbedBatchFails

InitEmbed ==
    /\ EmbedStart /\ CrawlIdle /\ RunIdle /\ ProviderIdle /\ GapAnalyzerIdle
    /\ OthersIdle

SpecEmbed == InitEmbed /\ [][EmbedNext]_vars

\* ------------------------------------------ process_text_into_packages()

\* memory.py:18-34, the tables insert_packages_to_supabase accepts
ALLOWED_TABLES ==
    { "website_builder_mastery_junk", "seo_junk", "psychology_empathy_junk",
      "website_types_junk", "analytics_junk", "content_design_junk",
      "multimodal_visual_search_junk", "ai_prompt_engineering_junk",
      "code_skills_junk", "schema_skills_junk", "meta_skills_junk",
      "backlinks_junk", "social_media_junk", "master_strategy_junk",
      "critical_thinking_junk" }

\* What the classifying model can answer (message.content): the name of a
\* table as listed in the prompt, that name in another case and with
\* whitespace round it, the default the prompt names, other text, nothing.
ClassifierAnswers ==
    { "seo_junk", " SEO_Junk\n", "master_strategy", "no idea", "" }

\* content.strip().lower()
StripLower(answer) == IF answer = " SEO_Junk\n" THEN "seo_junk" ELSE answer

\* return "master_strategy"
FALLBACK_TABLE == "master_strategy"

\* if table not in SPECIALIST_TABLES: return "master_strategy" / return table
ClassifyTable(answer) ==
    IF StripLower(answer) \notin Range(SPECIALIST_TABLES) THEN FALLBACK_TABLE
    ELSE StripLower(answer)

\* len(s.split()) >= 50: the text is modelled by the word counts of its
\* pieces, and the threshold is scaled down with them.
MIN_SECTION_WORDS == 3
\* word_count < 500 or word_count > 1000, scaled down likewise
TARGET_MIN_WORDS == 1
TARGET_MAX_WORDS == 2

\* Sum of a sequence of numbers
RECURSIVE Sum(_)
Sum(s) == IF s = << >> THEN 0 ELSE s[1] + Sum(Tail(s))

\* The texts: the non-blank pieces re.split leaves, each by its word count.
\* A text that is empty or all whitespace has no such piece.
Texts ==
    UNION { [1..n -> 1..MIN_SECTION_WORDS] : n \in 0..MaxPieces }

\* len(text.split())
TextWords(t) == Sum(t)

\* sections = [s for s in sections if len(s.split()) >= 50]
KeepAllSections(t) == t
UsableSections(t) ==
    LET Usable(w) == w >= MIN_SECTION_WORDS
    IN  SelectSeq(t, Usable)

\* len(summary.split()) of what a model call returns
SummaryWords == 0..(TARGET_MAX_WORDS + 1)

\* if word_count < 500 or word_count > 1000
OutsideTarget(w) == w < TARGET_MIN_WORDS \/ w > TARGET_MAX_WORDS

\* the package dict of rewrites.py:88-93; content is the summary, stripped
Package(w, table) ==
    [content |-> IF w = 0 THEN "" ELSE "text", word_count |-> w,
     table |-> table, embedding |-> "None"]

RewriteStart ==
    /\ rpc = "split"
    /\ text \in Texts
    /\ sections = << >>
    /\ sec_idx = 0
    /\ word_count = 0
    /\ out_packages = << >>
    /\ out_words = 0
    /\ model_calls = << >>

\* if not text.strip(): return [], 0
RewriteEmptyText ==
    /\ rpc = "split"
    /\ text = << >>
    /\ rpc' = "returned"
    /\ UNCHANGED << text, sections, sec_idx, word_count, out_packages,
                    out_words, model_calls >>
    /\ UNCHANGED nonRewriteVars

\* split and filter; if not sections: return [], 0
RewriteNoSections ==
    /\ rpc = "split"
    /\ text # << >>
    /\ UsableSections(text) = << >>
    /\ rpc' = "returned"
    /\ UNCHANGED << text, sections, sec_idx, word_count, out_packages,
                    out_words, model_calls >>
    /\ UNCHANGED nonRewriteVars

\* split and filter; the for loop begins
RewriteSplit ==
    /\ rpc = "split"
    /\ text # << >>
    /\ UsableSections(text) # << >>
    /\ sections' = UsableSections(text)
    /\ sec_idx' = 1
    /\ rpc' = "summarize"
    /\ UNCHANGED << text, word_count, out_packages, out_words, model_calls >>
    /\ UNCHANGED nonRewriteVars

\* A model call raised: the function's except turns it into ValueError, and
\* the except of process_text_into_packages raises ValueError in turn.
ModelCallRaises(fn) ==
    /\ rpc = fn
    /\ model_calls' = Append(model_calls, << fn, sec_idx >>)
    /\ rpc' = "raised"
    /\ UNCHANGED << text, sections, sec_idx, word_count, out_packages,
                    out_words >>
    /\ UNCHANGED nonRewriteVars

\* summary = await summarize_section(section)
Summarize ==
    /\ rpc = "summarize"
    /\ \E w \in SummaryWords :
        /\ word_count' = w
        /\ rpc' = IF OutsideTarget(w) THEN "adjust" ELSE "classify"
    /\ model_calls' = Append(model_calls, << "summarize", sec_idx >>)
    /\ UNCHANGED << text, sections, sec_idx, out_packages, out_words >>
    /\ UNCHANGED nonRewriteVars

SummarizeRaises == ModelCallRaises("summarize")

\* summary = await adjust_summary_length(summary, word_count)
AdjustLength ==
    /\ rpc = "adjust"
    /\ \E w \in SummaryWords : word_count' = w
    /\ rpc' = "classify"
    /\ model_calls' = Append(model_calls, << "adjust", sec_idx >>)
    /\ UNCHANGED << text, sections, sec_idx, out_packages, out_words >>
    /\ UNCHANGED nonRewriteVars

AdjustLengthRaises == ModelCallRaises("adjust")

\* for ... in enumerate(sections): the next section, or the return
AfterSection(i) == IF i < Len(sections) THEN "summarize" ELSE "returned"

\* suggested_table = await classify_section(summary); the package is
\* appended and total_words grows
Classify ==
    /\ rpc = "classify"
    /\ \E answer \in ClassifierAnswers :
        out_packages' =
            Append(out_packages, Package(word_count, ClassifyTable(answer)))
    /\ out_words' = out_words + word_count
    /\ model_calls' = Append(model_calls, << "classify", sec_idx >>)
    /\ rpc' = AfterSection(sec_idx)
    /\ sec_idx' = sec_idx + 1
    /\ UNCHANGED << text, sections, word_count >>
    /\ UNCHANGED nonRewriteVars

ClassifyRaises == ModelCallRaises("classify")

RewriteNext ==
    \/ RewriteEmptyText
    \/ RewriteNoSections
    \/ RewriteSplit
    \/ Summarize
    \/ SummarizeRaises
    \/ AdjustLength
    \/ AdjustLengthRaises
    \/ Classify
    \/ ClassifyRaises

InitRewrite ==
    /\ RewriteStart
    /\ CrawlIdle /\ RunIdle /\ ProviderIdle /\ GapAnalyzerIdle /\ EmbedderIdle
    /\ WriterIdle /\ ClientIdle

SpecRewrite == InitRewrite /\ [][RewriteNext]_vars

\* ------------------------------------------ insert_packages_to_supabase()

\* if not table or table not in allowed
InvalidTable(row) == row.table = "" \/ row.table \notin ALLOWED_TABLES

\* if embedding is None or not content.strip()
\* (package.get("embedding") is None for a package without the key)
NoEmbeddingOrEmptyContent(row) ==
    row.embedding \in {"absent", "None"} \/ row.content = ""
NoEmbeddingOrContent(row) ==
    row.embedding \in {"absent", "None"} \/ Strip(row.content) = ""

\* the package goes to the insert
Insertable(row) == ~InvalidTable(row) /\ ~NoEmbeddingOrContent(row)

\* except Exception: failed_count += 1 -- the for loop goes on with the
\* package that follows
StopAfterInsertError(i) == Len(rows) + 1
AfterInsertError(i) == i + 1

\* skipped_count += 1
CountNothing(c) == c
CountSkipped(c) == [c EXCEPT !.skipped = @ + 1]

\* for i, package in enumerate(packages): ... "chunk_index": i -- the 0-based
\* position of the package at the 1-based loop position k
ChunkIndexOfWritten(k) == Len(insert_log)
ChunkIndex(k) == k - 1

\* details.append({"index": i, "status": ..., ...})
Detail(status) == Append(details, << row_idx - 1, status >>)

\* if not packages: return {... all counts 0 ...}
WriterEmptyList ==
    /\ wpc = "call"
    /\ rows = << >>
    /\ wpc' = "returned"
    /\ UNCHANGED << rows, row_idx, counts, details, insert_log >>
    /\ UNCHANGED nonWriterVars

\* client = get_supabase_client() raised RuntimeError (credentials missing,
\* or create_client failed): nothing in the writer catches it
WriterClientRaises ==
    /\ wpc = "call"
    /\ rows # << >>
    /\ wpc' = "raised"
    /\ UNCHANGED << rows, row_idx, counts, details, insert_log >>
    /\ UNCHANGED nonWriterVars

\* the client is there; the counters are set to 0 and the for loop begins
WriterBegin ==
    /\ wpc = "call"
    /\ rows # << >>
    /\ wpc' = "loop"
    /\ row_idx' = 1
    /\ counts' = NoCounts
    /\ details' = << >>
    /\ UNCHANGED << rows, insert_log >>
    /\ UNCHANGED nonWriterVars

WriterSkipTable ==
    /\ wpc = "loop"
    /\ row_idx <= Len(rows)
    /\ InvalidTable(rows[row_idx])
    /\ counts' = CountSkipped(counts)
    /\ details' = Detail("skipped: invalid_table")
    /\ row_idx' = row_idx + 1
    /\ UNCHANGED << wpc, rows, insert_log >>
    /\ UNCHANGED nonWriterVars

WriterSkipEmpty ==
    /\ wpc = "loop"
    /\ row_idx <= Len(rows)
    /\ ~InvalidTable(rows[row_idx])
    /\ NoEmbeddingOrContent(rows[row_idx])
    /\ counts' = CountSkipped(counts)
    /\ details' = Detail("skipped: no_embedding_or_content")
    /\ row_idx' = row_idx + 1
    /\ UNCHANGED << wpc, rows, insert_log >>
    /\ UNCHANGED nonWriterVars

\* row = {...}; await loop.run_in_executor(None, lambda r=row, t=table: ...):
\* the insert of the package is handed to the executor and the writer waits
WriterInsertCall ==
    /\ wpc = "loop"
    /\ row_idx <= Len(rows)
    /\ Insertable(rows[row_idx])
    /\ wpc' = "insert"
    /\ UNCHANGED << rows, row_idx, counts, details, insert_log >>
    /\ UNCHANGED nonWriterVars

\* the insert, run in the executor, returned (whatever its status code)
WriterInsertOk ==
    /\ wpc = "insert"
    /\ insert_log' =
         Append(insert_log,
                << ChunkIndex(row_idx), rows[row_idx].table, "ok" >>)
    /\ counts' = [counts EXCEPT !.inserted = @ + 1]
    /\ details' = Detail("inserted")
    /\ row_idx' = row_idx + 1
    /\ wpc' = "loop"
    /\ UNCHANGED rows
    /\ UNCHANGED nonWriterVars

\* the insert raised (storage or transport error)
WriterInsertFails ==
    /\ wpc = "insert"
    /\ insert_log' =
         Append(insert_log,
                << ChunkIndex(row_idx), rows[row_idx].table, "raised" >>)
    /\ counts' = [counts EXCEPT !.failed = @ + 1]
    /\ details' = Detail("failed")
    /\ row_idx' = AfterInsertError(row_idx)
    /\ wpc' = "loop"
    /\ UNCHANGED rows
    /\ UNCHANGED nonWriterVars

\* return {"inserted_count": ..., "skipped_count": ..., ...}
WriterReturn ==
    /\ wpc = "loop"
    /\ row_idx > Len(rows)
    /\ wpc' = "returned"
    /\ UNCHANGED << rows, row_idx, counts, details, insert_log >>
    /\ UNCHANGED nonWriterVars

\* The package lists a caller can pass: each package with its table ("" for
\* a missing, None or empty one), its content, its "embedding" entry and its
\* word count.
WriterTables == {"", "seo_junk", "master_strategy"}
RowLists ==
    UNION { [1..n -> [content : {"", " ", "text"}, word_count : {1},
                      table : WriterTables,
                      embedding : {"absent", "None", "vector"}]] :
              n \in 0..MaxRows }

\* insert_packages_to_supabase(packages, source_url) has been called
WriterStart ==
    /\ wpc = "call"
    /\ rows \in RowLists
    /\ row_idx = 0
    /\ counts = NoCounts
    /\ details = << >>
    /\ insert_log = << >>

WriterNext ==
    \/ WriterEmptyList
    \/ WriterClientRaises
    \/ WriterBegin
    \/ WriterSkipTable
    \/ WriterSkipEmpty
    \/ WriterInsertCall
    \/ WriterInsertOk
    \/ WriterInsertFails
    \/ WriterReturn

InitWriter ==
    /\ WriterStart
    /\ CrawlIdle /\ RunIdle /\ ProviderIdle /\ GapAnalyzerIdle /\ EmbedderIdle
    /\ RewriterIdle /\ ClientIdle

SpecWriter == InitWriter /\ [][WriterNext]_vars

\* the dict the writer returns (its counts; details is kept in `details`)
WriterResult ==
    [inserted_count |-> counts.inserted, skipped_count |-> counts.skipped,
     failed_count |-> counts.failed]

\* ------------------------------------------------ get_supabase_client()

\* The schema arguments callers pass; "supabase_functions" is the default.
Schemas == {"supabase_functions", "public"}

\* The callers: code on the event loop (run(), the writer, the trainer) and
\* the insert lambda of the writer, which runs in an executor thread.
Callers == {"loop", "executor"}

\* if _client is None
ClientMissingForSchema(c, schema) == c = 0 \/ client_schema # schema
ClientMissing(c, schema) == c = 0

GetLogged(caller, schema, handle, error) ==
    Append(get_log, [caller |-> caller, schema |-> schema, handle |-> handle,
                     error |-> error])

\* SUPABASE_URL or the key is not set: RuntimeError, _client stays None
GetNoCredentials ==
    /\ Len(get_log) < MaxGets
    /\ \E schema \in Schemas :
         /\ ClientMissing(client, schema)
         /\ get_log' = GetLogged("loop", schema, 0, "credentials")
    /\ UNCHANGED << client, client_schema, created >>
    /\ UNCHANGED nonClientVars

\* create_client (or the options object) raised: RuntimeError is raised from
\* the except and the assignment to _client never happened
GetCreateFails ==
    /\ Len(get_log) < MaxGets
    /\ \E schema \in Schemas :
         /\ ClientMissing(client, schema)
         /\ get_log' = GetLogged("loop", schema, 0, "initialization")
    /\ UNCHANGED << client, client_schema, created >>
    /\ UNCHANGED nonClientVars

\* _client = create_client(url, key, options=opts); return _client
GetCreates ==
    /\ Len(get_log) < MaxGets
    /\ \E schema \in Schemas :
         /\ ClientMissing(client, schema)
         /\ client_schema' = schema
         /\ get_log' = GetLogged("loop", schema, created + 1, "")
    /\ created' = created + 1
    /\ client' = created + 1
    /\ UNCHANGED nonClientVars

\* _client is set: return _client
GetExisting ==
    /\ Len(get_log) < MaxGets
    /\ \E schema \in Schemas :
         /\ ~ClientMissing(client, schema)
         /\ get_log' = GetLogged("loop", schema, client, "")
    /\ UNCHANGED << client, client_schema, created >>
    /\ UNCHANGED nonClientVars

\* lambda r=row, t=table: get_supabase_client().table(t)...: the call made in
\* the executor thread for an insert.  The writer made its own call on
\* memory.py:150 before its loop, and that call returned a handle.
GetInExecutor ==
    /\ Len(get_log) < MaxGets
    /\ \E k \in 1..Len(get_log) : get_log[k].handle # 0
    /\ ~ClientMissing(client, "supabase_functions")
    /\ get_log' = GetLogged("executor", "supabase_functions", client, "")
    /\ UNCHANGED << client, client_schema, created >>
    /\ UNCHANGED nonClientVars

ClientNext ==
    \/ GetNoCredentials
    \/ GetCreateFails
    \/ GetCreates
    \/ GetExisting
    \/ GetInExecutor

InitClient ==
    /\ ClientIdle
    /\ CrawlIdle /\ RunIdle /\ ProviderIdle /\ GapAnalyzerIdle /\ EmbedderIdle
    /\ RewriterIdle /\ WriterIdle

SpecClient == InitClient /\ [][ClientNext]_vars

\* ---------------------- run(): the embed and insert stages of one URL

\* The lists process_text_into_packages can return to run() that pass
\* "if not packages": one package or more, each as Package builds it.
RewrittenLists ==
    UNION { [1..n -> { Package(w, ClassifyTable(a)) :
                         w \in SummaryWords, a \in ClassifierAnswers }] :
              n \in 1..MaxRows }

\* total_words += word_count, over the packages
TotalWords(p) == Sum([k \in 1..Len(p) |-> p[k].word_count])

\* run() at the call of embed_packages on orchestrator.py:156 for the only
\* URL of the list, the fetch and the rewrite having returned.
PersistInit ==
    /\ pc = "embedding"
    /\ brain \in { b \in Brains : GateOutcome(b) = "pass" }
    /\ urls = << Url("http", "h", 1, FALSE) >>
    /\ idx = 1
    /\ report = [InitialReport(urls[1]) EXCEPT !.urls_discovered = 1]
    /\ pkgs \in RewrittenLists
    /\ pkgs0 = pkgs
    /\ epc = "idle"
    /\ batch_log = << >>
    /\ packages = Len(pkgs)
    /\ total_words = TotalWords(pkgs)
    /\ calls = << << "crawl", urls[1] >>, << "fetch", urls[1] >>,
                  << "rewrite", urls[1] >>, << "embed", urls[1] >> >>
    /\ raised_log = << >>
    /\ discovery = "returned"
    /\ stage_log = << [stage |-> "fetch", pos |-> 1, outcome |-> "ok"],
                      [stage |-> "rewrite", pos |-> 1, outcome |-> "ok"] >>

\* packages = await embed_packages(packages): the return
EmbedReturns ==
    /\ pc = "embedding"
    /\ epc = "returned"
    /\ LogStage("embed", "ok")
    /\ pc' = "insert"
    /\ UNCHANGED << brain, report, urls, idx, packages, total_words, calls,
                    raised_log, discovery >>
    /\ UNCHANGED nonRunVars

\* insert_result = await insert_packages_to_supabase(packages, url): the
\* call, with the list embed_packages returned
InsertCall ==
    /\ pc = "insert"
    /\ wpc = "idle"
    /\ pc' = "inserting"
    /\ calls' = Append(calls, << "insert", urls[idx] >>)
    /\ wpc' = "call"
    /\ rows' = pkgs
    /\ UNCHANGED << brain, report, urls, idx, packages, total_words,
                    raised_log, discovery, stage_log >>
    /\ UNCHANGED << row_idx, counts, details, insert_log >>
    /\ UNCHANGED << crawlVars, providerVars, gapVars, embedVars, rewriteVars,
                    clientVars >>

\* the writer returned its summary: the totals grow and the URL is processed
InsertReturns ==
    /\ pc = "inserting"
    /\ wpc = "returned"
    /\ LogStage("insert", "ok")
    /\ report' = RecordInsert(report, Len(rows), total_words, WriterResult)
    /\ idx' = idx + 1
    /\ pc' = LoopPc(idx + 1)
    /\ UNCHANGED << brain, urls, packages, total_words, calls, raised_log,
                    discovery >>
    /\ UNCHANGED nonRunVars

\* the writer raised: except Exception of the insert stage
InsertRaised ==
    /\ pc = "inserting"
    /\ wpc = "raised"
    /\ LogStage("insert", "raised")
    /\ raised_log' = Append(raised_log, << "insert", urls[idx] >>)
    /\ FailUrl(StageMsg("insert"))
    /\ UNCHANGED << brain, urls, packages, total_words, calls, discovery >>
    /\ UNCHANGED nonRunVars

PersistNext ==
    \/ EmbedNoTexts
    \/ EmbedBatchOk
    \/ EmbedBatchFails
    \/ EmbedReturns
    \/ InsertCall
    \/ WriterClientRaises
    \/ WriterBegin
    \/ WriterSkipTable
    \/ WriterSkipEmpty
    \/ WriterInsertCall
    \/ WriterInsertOk
    \/ WriterInsertFails
    \/ WriterReturn
    \/ InsertReturns
    \/ InsertRaised

InitPersist ==
    /\ PersistInit
    /\ CrawlIdle /\ ProviderIdle /\ GapAnalyzerIdle /\ OthersIdle

SpecPersist == InitPersist /\ [][PersistNext]_vars

\* ------------------------------------------------------- claims on crawl()

\* C1: at every point of a crawl the number of discovered URLs is at most the
\* page cap, every discovered URL is in the visited set, and so
\* len(visited) >= len(discovered).
C1_DiscoveredWithinCapAndVisited ==
    /\ Len(discovered) <= MAX_PAGES
    /\ Range(discovered) \subseteq visited
    /\ Cardinality(visited) >= Len(discovered)

\* C1 witness: the crawl returned because the cap was reached while the
\* frontier still held an entry.
C1_Witness ==
    /\ cpc = "returned"
    /\ Len(discovered) = MAX_PAGES
    /\ queue # << >>

\* C2: no URL appears twice in discovered, whatever the link graph and the
\* fetch outcomes.
C2_NoDuplicateDiscovered == NoDuplicates(discovered)

\* C2 witness: a page other than the seed was fetched whose links point back
\* to the seed and to itself, and the crawl went on to return.
C2_Witness ==
    /\ cpc = "returned"
    /\ Len(discovered) >= 2
    /\ current[1] # Rstrip(seed_arg)
    /\ Rstrip(seed_arg) \in links_found
    /\ current[1] \in links_found

\* C3: crawl eventually returns (or raises on an invalid seed): no infinite
\* sequence of iterations exists.
C3_CrawlTerminates == <>(cpc \in {"returned", "raised"})

\* C3 witness: the crawl returned with the frontier exhausted below the cap,
\* after both failed and successful fetches.
C3_Witness ==
    /\ cpc = "returned"
    /\ queue = << >>
    /\ Len(discovered) < MAX_PAGES
    /\ Len(discovered) >= 1
    /\ Len(fetched) > Len(discovered)

Master == brain.master_enabled
KillActive == DictGet(brain.kill_switches, "global", FALSE)
UseUrl == DictGet(brain.router_toggles, "use_url", FALSE)

CountersZero(r) ==
    /\ r.urls_discovered = 0
    /\ r.urls_processed = 0
    /\ r.urls_failed = 0
    /\ r.total_packages = 0
    /\ r.total_words = 0
    /\ r.total_inserted = 0
    /\ r.total_skipped = 0
    /\ r.total_failed_inserts = 0

\* C4: if master_enabled is false, or the global kill switch is active, or
\* the use_url toggle is false, run makes no collaborator call at all and
\* returns a report with status blocked, all counters 0 and exactly one error
\* entry, naming the first failing condition in the order master_enabled,
\* kill switch, use_url.
C4_GateBlocks ==
    (~Master \/ KillActive \/ ~UseUrl) =>
        /\ pc \in {"gate", "returned"}
        /\ calls = << >>
        /\ pc = "returned" =>
             /\ report.status = "blocked"
             /\ CountersZero(report)
             /\ DOMAIN report.gaps_found = {}
             /\ Len(report.errors) = 1
             /\ report.errors[1].msg =
                  IF ~Master THEN MsgMaster
                  ELSE IF KillActive THEN MsgKill
                  ELSE MsgToggle

\* C4 witness: a run with the kill switch active and the use_url toggle off
\* has returned.
C4_Witness ==
    /\ pc = "returned"
    /\ Master
    /\ KillActive
    /\ ~UseUrl

\* The per-URL loop was entered: the discovery call returned a non-empty list.
EnteredLoop == discovery = "returned" /\ urls # << >>

\* C5: for every run that reaches the per-URL loop the final status is failed
\* exactly when urls_processed = 0, partial exactly when urls_processed >= 1
\* and urls_failed >= 1, success exactly when urls_processed >= 1 and
\* urls_failed = 0.
C5_StatusDerivation ==
    (pc = "returned" /\ EnteredLoop) =>
        /\ report.status = "failed" <=> report.urls_processed = 0
        /\ report.status = "partial" <=>
             (report.urls_processed >= 1 /\ report.urls_failed >= 1)
        /\ report.status = "success" <=>
             (report.urls_processed >= 1 /\ report.urls_failed = 0)

\* C5 witness: a run returned partial.
C5_Witness ==
    /\ pc = "returned"
    /\ EnteredLoop
    /\ report.status = "partial"
    /\ report.urls_processed = 1
    /\ report.urls_failed = 1

IsFetchCall(c) == c[1] = "fetch"
IsUrlStageRaise(e) == e[1] \in {"fetch", "rewrite", "embed", "insert"}
IsStageFailedEntry(e) ==
    e.msg \in { StageMsg(st) : st \in {"fetch", "rewrite", "embed", "insert"} }

\* the URLs whose processing was started, in order
Attempted == [k \in 1..Len(SelectSeq(calls, IsFetchCall)) |->
                SelectSeq(calls, IsFetchCall)[k][2]]

\* C6: each URL of the discovered list is attempted exactly once, in list
\* order, whatever the stages do (a failure on one URL never prevents the
\* next), and each stage exception appends one error entry holding the URL it
\* happened on.
C6_EveryUrlAttemptedOnce ==
    LET raises == SelectSeq(raised_log, IsUrlStageRaise)
        entries == SelectSeq(report.errors, IsStageFailedEntry)
    IN  /\ Len(Attempted) <= Len(urls)
        /\ Attempted = SubSeq(urls, 1, Len(Attempted))
        /\ (EnteredLoop /\ pc \in {"gap", "returned"}) => Attempted = urls
        /\ pc # "raised"
        /\ Len(entries) = Len(raises)
        /\ \A k \in 1..Len(raises) :
             entries[k] = ErrorEntry(StageMsg(raises[k][1]), raises[k][2])

\* C6 witness: the first URL failed with an exception and a later URL was
\* processed, and the run returned.
C6_Witness ==
    /\ pc = "returned"
    /\ Len(urls) >= 2
    /\ raised_log # << >>
    /\ raised_log[1][2] = urls[1]
    /\ report.urls_processed >= 1

IsStageCall(c) == c[1] \in {"fetch", "rewrite", "embed", "insert", "gap"}

\* C7: if the discovery call raises or returns an empty list, run returns
\* status failed with one error entry and urls_processed = 0, and neither a
\* per-URL stage nor the gap analysis is executed.
C7_DiscoveryFailure ==
    (discovery = "raised" \/ (discovery = "returned" /\ urls = << >>)) =>
        /\ SelectSeq(calls, IsStageCall) = << >>
        /\ pc \in {"discovery_raised", "discovery_returned", "returned"}
        /\ pc = "returned" =>
             /\ report.status = "failed"
             /\ Len(report.errors) = 1
             /\ report.urls_processed = 0

\* C7 witness: the discovery call returned the empty list and run returned.
C7_Witness ==
    /\ pc = "returned"
    /\ discovery = "returned"
    /\ urls = << >>

GatePasses == Master /\ ~KillActive /\ UseUrl

\* C8: when the three gate conditions pass, run invokes crawl on the seed URL
\* (and then takes urls_discovered from the list it returns).
C8_GatePassInvokesCrawl ==
    (GatePasses /\ pc \notin {"gate", "discovery"}) =>
        /\ calls # << >>
        /\ calls[1] = << "crawl", report.seed_url >>

\* C9: run never raises and always returns a report whose status is one of
\* blocked, failed, partial, success, whatever the stages and the gap
\* analysis do.
C9_RunNeverRaises ==
    /\ pc # "raised"
    /\ pc = "returned" =>
         report.status \in {"blocked", "failed", "partial", "success"}

\* C9 witness: a run in which a stage and the gap analysis both raised has
\* returned.
C9_Witness ==
    /\ pc = "returned"
    /\ Len(raised_log) >= 2
    /\ raised_log[Len(raised_log)][1] = "gap"
    /\ report.urls_processed >= 1

\* ------------------------------------------------ claims on a failed fetch

\* C11: a URL whose fetch failed is not in discovered, is in the visited set
\* and has been handed to _fetch_page exactly once; and the step in which
\* the fetch fails leaves the queue and discovered as they were (no link of
\* the page is enqueued) and takes the crawl back to the head of the loop,
\* where the next frontier entry is taken.
C11_FailedFetchSkipped ==
    /\ [](\A u \in fetch_failed :
            /\ u \notin Range(discovered)
            /\ u \in visited
            /\ Cardinality({ k \in 1..Len(fetched) : fetched[k] = u }) = 1)
    /\ [][(cpc = "fetch" /\ fetch_failed' # fetch_failed)
            => /\ queue' = queue
               /\ discovered' = discovered
               /\ visited' = visited
               /\ cpc' = "loop"]_vars

\* a crawl has returned in which a page failed to load and a page fetched
\* after it linked to it again
C11_Witness ==
    /\ cpc = "returned"
    /\ Len(discovered) >= 2
    /\ \E u \in fetch_failed \cap links_found :
         \E i, j \in 1..Len(fetched) :
            /\ i < j
            /\ fetched[i] = u
            /\ fetched[j] = discovered[Len(discovered)]

\* ------------------------------------------------- claims on call_model()

\* the positions in the log of call c at which backend p was dispatched
AttemptsOn(c, p) ==
    { k \in 1..Len(dispatch_log[c]) : dispatch_log[c][k][1] = p }

\* where backend p stands in the list the router gave to call c
PosOf(c, p) == CHOOSE k \in 1..Len(available[c]) : available[c][k] = p

\* After attempt k of call c the router has gone on to the backend that
\* follows in available_providers (it is being dispatched for the first
\* time, or that first attempt is the next one logged), or has returned if
\* there is none.
MovedOn(c, k) ==
    LET log == dispatch_log[c]
        pos == PosOf(c, log[k][1])
    IN  IF pos < Len(available[c])
        THEN IF k < Len(log)
             THEN /\ log[k + 1][1] = available[c][pos + 1]
                  /\ log[k + 1][2] = 1
             ELSE /\ mpc[c] = "dispatch"
                  /\ pidx[c] = pos + 1
                  /\ attempt[c] = 1
        ELSE /\ k = Len(log)
             /\ mpc[c] = "done"

\* C12: within one invocation, an attempt that fails with a non-transient
\* error is the last attempt on that backend (it is not retried); when it is
\* the first attempt, the backend has been dispatched exactly once; and the
\* router goes on to the next backend in the order of available_providers().
C12_NonTransientNotRetried ==
    \A c \in CallIds : \A k \in 1..Len(dispatch_log[c]) :
        LET e == dispatch_log[c][k]
        IN  e[3] = "status" =>
              /\ \A j \in AttemptsOn(c, e[1]) : j <= k
              /\ e[2] = 1 => AttemptsOn(c, e[1]) = {k}
              /\ MovedOn(c, k)

\* the first backend failed with an HTTP status error on its first attempt
\* and the call returned the answer of the second
C12_Witness ==
    \E c \in CallIds :
        /\ mpc[c] = "done"
        /\ Len(available[c]) = 2
        /\ Len(dispatch_log[c]) = 2
        /\ dispatch_log[c][1] = << available[c][1], 1, "status" >>
        /\ dispatch_log[c][2] = << available[c][2], 1, "ok" >>

\* C13: within one invocation no backend is dispatched more than 2 times; an
\* attempt after the first follows a transient failure of the attempt before
\* it on the same backend; and after a failed second attempt the router
\* goes on to the next backend.
C13_AttemptBound ==
    \A c \in CallIds : \A k \in 1..Len(dispatch_log[c]) :
        LET log == dispatch_log[c]
            e == log[k]
        IN  /\ Cardinality(AttemptsOn(c, e[1])) <= 2
            /\ e[2] <= 2
            /\ e[2] > 1 =>
                  /\ k > 1
                  /\ log[k - 1] = << e[1], e[2] - 1, "transient" >>
            /\ (e[2] = 2 /\ e[3] \in DispatchErrors) => MovedOn(c, k)

\* the first backend failed twice with a transient error and the call
\* returned the answer the second gave on its second attempt
C13_Witness ==
    \E c \in CallIds :
        /\ mpc[c] = "done"
        /\ Len(available[c]) = 2
        /\ Len(dispatch_log[c]) = 4
        /\ dispatch_log[c][2] = << available[c][1], 2, "transient" >>
        /\ dispatch_log[c][4] = << available[c][2], 2, "ok" >>

\* every backend of the list failed
AllFailed(c) ==
    /\ mpc[c] = "done"
    /\ available[c] # << >>
    /\ \A k \in 1..Len(dispatch_log[c]) : dispatch_log[c][k][3] # "ok"

\* C14: when every available backend has failed in one invocation, each of
\* them has been attempted and the message returned carries the error of
\* the last attempt on the last backend of the list.
C14_LastErrorReturned ==
    \A c \in CallIds :
        AllFailed(c) =>
            LET log == dispatch_log[c]
                last == log[Len(log)]
            IN  /\ { log[k][1] : k \in 1..Len(log) } = Range(available[c])
                /\ last[1] = available[c][Len(available[c])]
                /\ result[c].kind = "unavailable"
                /\ result[c].last_error = << last[1], last[3] >>

\* two backends failed with different errors
C14_Witness ==
    \E c \in CallIds :
        /\ AllFailed(c)
        /\ Len(available[c]) = 2
        /\ Len(dispatch_log[c]) = 3
        /\ dispatch_log[c][1][3] = "status"
        /\ dispatch_log[c][3][3] = "transient"

\* C15: when all backends failed, or none is available, call_model ends in
\* a failure outcome (an exception reaching the calling stage), not in a
\* normal return.
C15_ExhaustionIsFailure ==
    \A c \in CallIds :
        (mpc[c] = "done" /\ (available[c] = << >> \/ AllFailed(c))) =>
            result[c].raised

\* the step in which invocation c returns a backend's response
Succeeds(c) ==
    /\ mpc[c] # "done"
    /\ mpc'[c] = "done"
    /\ result'[c].kind = "response"

\* C16: the step in which an invocation succeeds on backend b adds
\* max(1, (len(prompt) + len(response)) // 4) (in units of
\* 1/tokens_per_minute minutes) to b's counter, which so increases, and
\* leaves every other counter as it was; every other step of an invocation
\* (a failed attempt, a backoff, the return after all backends failed)
\* leaves all counters as they were.
C16_OnlySuccessfulBackendCharged ==
    [][ /\ DOMAIN usage' = DOMAIN usage
        /\ \A c \in CallIds :
             Succeeds(c) =>
                LET b == available[c][pidx[c]]
                    t == (prompt[c] + result'[c].len) \div 4
                    inc == IF t >= 1 THEN t ELSE 1
                IN  /\ result'[c].provider = b
                    /\ b \in DOMAIN usage =>
                          /\ usage'[b] = usage[b] + inc
                          /\ usage'[b] > usage[b]
                    /\ \A q \in DOMAIN usage \ {b} : usage'[q] = usage[q]
        /\ (\A c \in CallIds : ~Succeeds(c)) => usage' = usage ]_vars

\* the first backend failed, the second answered, and only the second
\* backend's counter has grown, by 2
C16_Witness ==
    \E c \in CallIds :
        /\ mpc[c] = "done"
        /\ Len(available[c]) = 2
        /\ result[c].kind = "response"
        /\ result[c].provider = available[c][2]
        /\ DOMAIN usage = Providers
        /\ usage[available[c][2]] = usage0[available[c][2]] + 2
        /\ usage[available[c][1]] = usage0[available[c][1]]

\* what the finished invocations in S charged to backend b
RECURSIVE Charged(_, _)
Charged(S, b) ==
    IF S = {} THEN 0
    ELSE LET c == CHOOSE x \in S : TRUE
             t == IF result[c].kind = "response" /\ result[c].provider = b
                  THEN result[c].tokens
                  ELSE 0
         IN  t + Charged(S \ {c}, b)

\* C17: with concurrent invocations on one usage object no increment is
\* lost: at every moment, and so after all invocations have finished, each
\* backend's counter is its initial value plus the increments of the
\* invocations that succeeded on that backend.
C17_NoLostUpdate ==
    \A b \in DOMAIN usage : usage[b] = usage0[b] + Charged(CallIds, b)

\* all invocations have finished, one of them began while another was in
\* flight, and two succeeded on the same backend
C17_Witness ==
    /\ \A c \in CallIds : mpc[c] = "done"
    /\ \E c \in CallIds : overlapped[c]
    /\ DOMAIN usage = Providers
    /\ \E c, d \in CallIds :
         /\ c # d
         /\ result[c].kind = "response"
         /\ result[d].kind = "response"
         /\ result[c].provider = result[d].provider
         /\ Len(dispatch_log[c]) >= 2

\* --------------------------------------------- claims on the gap analysis

\* C18: analyze() scans every table in the order of SPECIALIST_TABLES
\* whatever fails: while it runs, the tables scanned so far are the first
\* ones of the list, and when it has returned every table has been scanned,
\* a table whose scan raised is not in the result, and a table whose scan
\* returned rows is in the result with these rows; analyze() has no other
\* way to end than to return.
C18_ScanSurvivesFailure ==
    /\ gpc \in {"idle", "scan", "returned"}
    /\ [k \in 1..Len(scan_log) |-> scan_log[k][1]]
         = SubSeq(SPECIALIST_TABLES, 1, Len(scan_log))
    /\ gpc = "scan" => table_idx = Len(scan_log) + 1
    /\ gpc = "returned" =>
         /\ Len(scan_log) = Len(SPECIALIST_TABLES)
         /\ \A k \in 1..Len(scan_log) :
              LET t == scan_log[k][1]
                  kind == scan_log[k][2]
                  n == scan_log[k][3]
              IN  /\ kind = "raised" => t \notin DOMAIN gap_report
                  /\ (kind = "rows" /\ n > 0) =>
                        (t \in DOMAIN gap_report /\ gap_report[t] = n)
                  /\ t \in DOMAIN gap_report => (kind = "rows" /\ n > 0)

\* the scan of the first table raised and analyze() returned the rows of
\* a later table
C18_Witness ==
    /\ gpc = "returned"
    /\ scan_log[1][2] = "raised"
    /\ scan_log[Len(scan_log)][2] = "rows"
    /\ DOMAIN gap_report = { SPECIALIST_TABLES[Len(SPECIALIST_TABLES)] }

\* C19: the step in which the gap analysis fails after the per-URL loop
\* appends exactly one entry to the error list, leaves gaps_found empty and
\* every per-URL and package counter as it was, and sets the status that
\* urls_processed and urls_failed alone determine.
C19_GapFailureFrame ==
    [][ (pc = "gap" /\ raised_log' # raised_log) =>
          /\ pc' = "returned"
          /\ report'.errors =
                Append(report.errors, ErrorEntry("Gap analysis failed", NoUrl))
          /\ report'.gaps_found = EmptyDict
          /\ report'.urls_discovered = report.urls_discovered
          /\ report'.urls_processed = report.urls_processed
          /\ report'.urls_failed = report.urls_failed
          /\ report'.total_packages = report.total_packages
          /\ report'.total_words = report.total_words
          /\ report'.total_inserted = report.total_inserted
          /\ report'.total_skipped = report.total_skipped
          /\ report'.total_failed_inserts = report.total_failed_inserts
          /\ report'.status =
                IF report.urls_processed = 0 THEN "failed"
                ELSE IF report.urls_failed > 0 THEN "partial"
                ELSE "success" ]_vars

\* a run in which every URL was processed and the gap analysis failed has
\* returned success with one error entry
C19_Witness ==
    /\ pc = "returned"
    /\ raised_log = << << "gap", NoUrl >> >>
    /\ report.errors = << ErrorEntry("Gap analysis failed", NoUrl) >>
    /\ report.status = "success"
    /\ report.urls_processed = Len(urls)
    /\ report.total_inserted >= 1
    /\ report.gaps_found = EmptyDict

\* ------------------------------------------------ claims on the embedder

\* C20: in every package list embed_packages returns, a package without a
\* vector has empty or whitespace content, also when the batch embedding
\* call failed.
C20_VectorAbsentOnlyIfBlank ==
    epc = "returned" =>
        \A k \in 1..Len(pkgs) :
            pkgs[k].embedding # "vector" => ~NonBlank(pkgs[k].content)

\* ------------------------------- claims on process_text_into_packages()

\* C21: every package that classification produces carries a table that
\* insert_packages_to_supabase accepts, the fallback included.
C21_CategoryAccepted ==
    \A k \in 1..Len(out_packages) : out_packages[k].table \in ALLOWED_TABLES

\* C22: for a text of fewer words than the threshold, the empty and the
\* all-whitespace text included, the call returns no package and a total of
\* 0 words, and has made no model call.
C22_ShortTextNoPackages ==
    (rpc # "idle" /\ rpc # "split" /\ TextWords(text) < MIN_SECTION_WORDS) =>
        /\ rpc = "returned"
        /\ out_packages = << >>
        /\ out_words = 0
        /\ model_calls = << >>

C22_Witness ==
    /\ rpc = "returned"
    /\ Len(text) = 2
    /\ TextWords(text) < MIN_SECTION_WORDS

\* --------------------------------------------- claims on crawl(), continued

\* A link as the claim describes it: http(s), on the seed's host, without a
\* denied extension, matching none of the denylist patterns, without "?".
CleanLink(h) == h.kind = "page"

\* C23: once a page at a depth below MAX_DEPTH has been fetched, every clean
\* link on it that is neither visited nor queued is on the queue at the
\* page's depth + 1.
C23_CleanLinksEnqueued ==
    [][(cpc = "fetch" /\ discovered' # discovered /\ current[2] < MAX_DEPTH) =>
        \A h \in hrefs' :
            (/\ CleanLink(h)
             /\ Absolute(h, base_domain) \notin visited
             /\ Absolute(h, base_domain) \notin QueueUrls(queue))
            => << Absolute(h, base_domain), current[2] + 1 >> \in Range(queue')]_vars

\* C24: no queue entry and no fetched URL has a depth above MAX_DEPTH: the
\* seed is enqueued at depth 0, and entries are added to the queue only when
\* a page fetched at a depth below MAX_DEPTH has been parsed, each at that
\* page's depth + 1.
C24_DepthWithinCap ==
    /\ [](/\ \A k \in 1..Len(enqueued) : enqueued[k][2] <= MAX_DEPTH
          /\ Range(queue) \subseteq Range(enqueued)
          /\ enqueued # << >> => enqueued[1] = << Rstrip(seed_arg), 0 >>
          /\ cpc \in {"fetch", "sleep"} =>
                current \in Range(enqueued) /\ current[2] <= MAX_DEPTH)
    /\ [][(enqueued # << >> /\ enqueued' # enqueued) =>
            /\ cpc = "fetch"
            /\ discovered' = Append(discovered, current[1])
            /\ current[2] < MAX_DEPTH
            /\ \A k \in (Len(enqueued) + 1)..Len(enqueued') :
                    enqueued'[k][2] = current[2] + 1]_vars

\* a page at depth MAX_DEPTH has been fetched and parsed, it links to pages
\* not yet visited, and none of them has been put on the queue
C24_Witness ==
    /\ cpc \in {"loop", "sleep"}
    /\ current[2] = MAX_DEPTH
    /\ discovered # << >>
    /\ discovered[Len(discovered)] = current[1]
    /\ links_found \ visited # {}
    /\ (links_found \ visited) \cap QueueUrls(queue) = {}

\* the entries taken off the queue so far
Dequeued == SubSeq(enqueued, 1, Len(enqueued) - Len(queue))

\* C25: the URLs are fetched in the order in which they were put on the
\* queue, the links of one page are put on it in ascending order, the depths
\* of the URLs fetched never decrease, and discovered lists the pages that
\* loaded in the order of their fetches.
C25_FifoOrder ==
    /\ [](/\ Len(queue) <= Len(enqueued)
          /\ enqueued = Dequeued \o queue
          /\ fetched = [k \in 1..Len(Dequeued) |-> Dequeued[k][1]]
          /\ \A i, j \in 1..Len(enqueued) :
                i < j => enqueued[i][2] <= enqueued[j][2]
          /\ LET Loaded(u) == /\ u \notin fetch_failed
                              /\ ~(cpc = "fetch" /\ u = current[1])
             IN  discovered = SelectSeq(fetched, Loaded))
    /\ [][\A i, j \in (Len(enqueued) + 1)..Len(enqueued') :
            i < j => enqueued'[i][1].page < enqueued'[j][1].page]_vars

\* a crawl has returned after fetching everything it enqueued: the seed, two
\* or more pages it links to, and a page at depth 2
C25_Witness ==
    /\ cpc = "returned"
    /\ queue = << >>
    /\ Len(fetched) = NumPages
    /\ enqueued[2][2] = 1
    /\ enqueued[3][2] = 1
    /\ enqueued[Len(enqueued)][2] = 2

C27_QueueFreshAndDistinct ==
    /\ [](/\ QueueUrls(queue) \cap visited = {}
          /\ \A a, b \in 1..Len(queue) : queue[a][1] = queue[b][1] => a = b)
    /\ [][(cpc = "loop" /\ queue' # queue) =>
            Head(queue)[1] \notin visited /\ cpc' = "fetch"]_vars

\* a page has been parsed that links to a visited page and to a page that an
\* earlier page had put on the queue, where it still is
C27_Witness ==
    /\ cpc = "sleep"
    /\ links_found \cap visited # {}
    /\ \E k \in 1..Len(queue) :
         queue[k][1] \in links_found /\ queue[k][2] <= current[2]

\* ---------------------------------------------- claims on run(), continued

\* the stage call before the k-th one
Before(k) == stage_log[k - 1]

\* C28: for each URL the stages are called in the order fetch, rewrite,
\* embed, insert; a stage is called only when the stage before it, for the
\* same URL, returned without an exception and with something in hand
\* (non-blank text, one package or more); and the fetch of a URL is called
\* only when the stages of the URL before it are over.
C28_StagesInOrder ==
    \A k \in 1..Len(stage_log) :
        LET e == stage_log[k]
        IN  /\ e.stage = "fetch" =>
                 \/ k = 1 /\ e.pos = 1
                 \/ /\ k > 1
                    /\ e.pos = Before(k).pos + 1
                    /\ \/ Before(k).outcome \in {"raised", "empty"}
                       \/ Before(k).stage = "insert"
            /\ e.stage = "rewrite" =>
                 k > 1 /\ Before(k) = [stage |-> "fetch", pos |-> e.pos, outcome |-> "ok"]
            /\ e.stage = "embed" =>
                 k > 1 /\ Before(k) = [stage |-> "rewrite", pos |-> e.pos, outcome |-> "ok"]
            /\ e.stage = "insert" =>
                 /\ k > 1
                 /\ Before(k).stage = "embed"
                 /\ Before(k).pos = e.pos
                 /\ Before(k).outcome \notin {"raised", "empty"}

\* the first URL went through its four stages, and the second URL was
\* fetched and then gave no package
C28_Witness ==
    /\ Len(stage_log) = 6
    /\ stage_log[4] = [stage |-> "insert", pos |-> 1, outcome |-> "ok"]
    /\ stage_log[5] = [stage |-> "fetch", pos |-> 2, outcome |-> "ok"]
    /\ stage_log[6] = [stage |-> "rewrite", pos |-> 2, outcome |-> "empty"]
    /\ pc = "gap"

FailedInserts == { k \in 1..Len(insert_log) : insert_log[k][3] = "raised" }

UrlErrors(u) == { k \in 1..Len(report.errors) : report.errors[k].url = u }

PerUrlEntries == { k \in 1..Len(report.errors) : report.errors[k].url # NoUrl }

\* C32: each iteration of the per-URL loop adds 1 to exactly one of
\* urls_processed and urls_failed: with the loop at list position idx the two
\* add up to idx - 1, and in the report of a run that entered the loop they
\* add up to urls_discovered and the error list holds as many entries with a
\* URL as urls_failed says.
C32_OneCountPerUrl ==
    /\ [][ (pc \in {"fetch", "rewrite", "embed", "insert"} /\ idx' = idx + 1) =>
             \/ /\ report'.urls_processed = report.urls_processed + 1
                /\ report'.urls_failed = report.urls_failed
             \/ /\ report'.urls_processed = report.urls_processed
                /\ report'.urls_failed = report.urls_failed + 1 ]_vars
    /\ []( pc \in {"fetch", "rewrite", "embed", "insert", "gap"} =>
             /\ report.urls_processed + report.urls_failed = idx - 1
             /\ Cardinality(PerUrlEntries) = report.urls_failed )
    /\ []( (pc = "returned" /\ EnteredLoop) =>
             /\ report.urls_processed + report.urls_failed
                  = report.urls_discovered
             /\ report.urls_discovered = Len(urls)
             /\ Cardinality(PerUrlEntries) = report.urls_failed )

\* a run over two URLs returned: one URL was processed, the other failed and
\* left the one entry with a URL
C32_Witness ==
    /\ pc = "returned"
    /\ report.urls_discovered = 2
    /\ report.urls_processed = 1
    /\ report.urls_failed = 1
    /\ Cardinality(PerUrlEntries) = 1

\* C33: the writer gives every package exactly one outcome: while it loops
\* the three counts add up to the number of packages handled so far, its
\* result has inserted_count + skipped_count + failed_count = len(packages)
\* with one details entry per package position, and in every report
\* total_inserted + total_skipped + total_failed_inserts = total_packages.
C33_OneOutcomePerPackage ==
    /\ wpc \in {"loop", "insert"} =>
          /\ counts.inserted + counts.skipped + counts.failed = row_idx - 1
          /\ Len(details) = row_idx - 1
    /\ wpc = "returned" =>
          /\ counts.inserted + counts.skipped + counts.failed = Len(rows)
          /\ Len(details) = Len(rows)
          /\ \A k \in 1..Len(details) : details[k][1] = k - 1
    /\ pc # "idle" =>
          report.total_inserted + report.total_skipped
              + report.total_failed_inserts = report.total_packages

\* a URL with two packages is done: one package was skipped, the insert of
\* the other failed
C33_Witness ==
    /\ pc = "gap"
    /\ wpc = "returned"
    /\ Len(rows) = 2
    /\ report.total_packages = 2
    /\ report.total_skipped = 1
    /\ report.total_failed_inserts = 1

\* ------------------------------------------------- claims on the writer

\* the package must not be written: no table or one outside the allowed
\* set, no vector, or content that is empty or whitespace
Unwritable(row) ==
    \/ row.table = ""
    \/ row.table \notin ALLOWED_TABLES
    \/ row.embedding \notin {"vector"}
    \/ row.content \in {"", " "}

\* C34: the writer never hands an insert to storage for a package whose
\* table is missing or not allowed, whose vector is absent or whose content
\* is empty or whitespace; each such package is counted as skipped, and the
\* packages that follow it are still handled.
C34_UnwritableSkipped ==
    /\ \A j \in 1..Len(insert_log) : ~Unwritable(rows[insert_log[j][1] + 1])
    /\ wpc = "insert" => ~Unwritable(rows[row_idx])
    /\ wpc \in {"loop", "insert"} =>
          counts.skipped =
              Cardinality({ k \in 1..(row_idx - 1) : Unwritable(rows[k]) })
    /\ wpc = "returned" =>
          /\ counts.skipped =
                Cardinality({ k \in 1..Len(rows) : Unwritable(rows[k]) })
          /\ Len(details) = Len(rows)
          /\ \A k \in 1..Len(rows) :
                IF Unwritable(rows[k])
                THEN details[k][2] \in { "skipped: invalid_table",
                                         "skipped: no_embedding_or_content" }
                ELSE \E j \in 1..Len(insert_log) : insert_log[j][1] = k - 1

\* the first package has a vector and an allowed table but whitespace for
\* content and was skipped; the second was inserted
C34_Witness ==
    /\ wpc = "returned"
    /\ Len(rows) = 2
    /\ rows[1].content = " "
    /\ rows[1].embedding = "vector"
    /\ rows[1].table = "seo_junk"
    /\ counts.skipped = 1
    /\ insert_log = << << 1, "seo_junk", "ok" >> >>

\* the packages before list position k that go to storage
WritableBefore(k) == { j \in 1..(k - 1) : ~Unwritable(rows[j]) }

\* C35: the rows of one URL go to storage in increasing package position,
\* one insert being over before the next is handed over, and the chunk_index
\* of a row is the position of its package in the list: skipped and failed
\* packages leave gaps and shift nothing.
C35_PositionalChunkIndex ==
    /\ [][ Len(insert_log') = Len(insert_log) + 1 =>
             /\ wpc = "insert"
             /\ insert_log'[Len(insert_log')][1] = row_idx - 1
             /\ insert_log'[Len(insert_log')][2] = rows[row_idx].table
             /\ SubSeq(insert_log', 1, Len(insert_log)) = insert_log ]_vars
    /\ []( \A a, b \in 1..Len(insert_log) :
             a < b => insert_log[a][1] < insert_log[b][1] )
    /\ []( wpc \in {"loop", "insert"} =>
             /\ Len(insert_log) = Cardinality(WritableBefore(row_idx))
             /\ \A j \in 1..Len(insert_log) : insert_log[j][1] < row_idx - 1 )

\* the first package names a table that is not allowed and was skipped; the
\* second was written with chunk_index 1
C35_Witness ==
    /\ wpc = "returned"
    /\ Len(rows) = 2
    /\ rows[1].table = "master_strategy"
    /\ details[1] = << 0, "skipped: invalid_table" >>
    /\ insert_log = << << 1, "seo_junk", "ok" >> >>

\* ------------------------------------------------ claims on the rewrite

\* the entry of model_calls is a call of the model backend
IsModelCall(e) == e[1] \in {"summarize", "adjust", "classify"}

\* C36: between any two successive calls of the model backend (summarize,
\* adjust-length, classify, within a section and from one section to the
\* next) the inter-call delay is observed: no two model calls follow each
\* other with nothing awaited in between.
C36_DelayBetweenModelCalls ==
    \A k \in 1..(Len(model_calls) - 1) :
        ~(IsModelCall(model_calls[k]) /\ IsModelCall(model_calls[k + 1]))

\* ---------------------------------------------------- claims on the gate

\* C37: the gate settings are read once, at the start of run: when the kill
\* switch is activated (or master_enabled or use_url turned off) after the
\* gate check has passed, the run is never blocked any more (status
\* "blocked" is only ever set by the gate check itself, on the settings it
\* reads then) and every URL of the discovered list is still attempted.
C37_GateReadOnce ==
    /\ [][ (report'.status = "blocked" /\ report.status # "blocked") =>
             /\ pc = "gate"
             /\ GateOutcome(brain) # "pass"
             /\ calls = << >> ]_vars
    /\ []( pc \notin {"idle", "gate"} /\ calls # << >> =>
             report.status # "blocked" )
    /\ []( (EnteredLoop /\ pc \in {"gap", "returned"}) => Attempted = urls )
    /\ []( (EnteredLoop /\ pc = "returned") =>
             report.status = FinalStatus(report) )

\* the kill switch was activated after the gate check had passed; both URLs
\* of the list were processed and the run returned success
C37_Witness ==
    /\ pc = "returned"
    /\ Len(urls) = 2
    /\ DictGet(brain.kill_switches, "global", FALSE)
    /\ report.urls_processed = 2
    /\ report.status = "success"

\* ---------------------------------------------- claims on call_model, II

\* the attempt ended with _dispatch_call returning to call_model (with the
\* content of the backend's answer) and not raising: "ok", or "TypeError"
\* when the usage tracking that follows the return raised
DispatchReturned(e) == e[3] \in {"ok", "TypeError"}

\* C38: within one invocation, once the dispatch to a backend has returned,
\* no further backend is dispatched and call_model returns what that backend
\* answered, also when recording the usage of that backend fails.
C38_FirstResponseReturned ==
    \A c \in CallIds :
        \A k \in 1..Len(dispatch_log[c]) :
            DispatchReturned(dispatch_log[c][k]) =>
                /\ k = Len(dispatch_log[c])
                /\ mpc[c] = "done"
                /\ result[c].kind = "response"
                /\ result[c].provider = dispatch_log[c][k][1]

\* ------------------------------------------ claims on the storage handle

\* the calls of get_supabase_client that returned a handle
Handed == { k \in 1..Len(get_log) : get_log[k].handle # 0 }

ScanFoundRows(t) ==
    \E k \in 1..Len(scan_log) :
        scan_log[k][1] = t /\ scan_log[k][2] = "rows" /\ scan_log[k][3] >= 1

\* C40: a table is a key of the result of analyze() if and only if its scan
\* succeeded and returned at least one incomplete row, so that a table that
\* is missing had no incomplete row or failed to scan; gaps_found of the
\* report holds the number of rows of each key, and each count is at least 1.
C40_GapKeysHaveRows ==
    /\ DOMAIN gap_report \subseteq GapTables
    /\ \A t \in DOMAIN gap_report : ScanFoundRows(t) /\ gap_report[t] >= 1
    /\ gpc = "returned" =>
          \A t \in GapTables :
              /\ t \in DOMAIN gap_report <=> ScanFoundRows(t)
              /\ t \notin DOMAIN gap_report =>
                    \E k \in 1..Len(scan_log) :
                        /\ scan_log[k][1] = t
                        /\ \/ scan_log[k][2] = "raised"
                           \/ scan_log[k][2] = "none"
                           \/ scan_log[k][3] = 0
    /\ pc = "returned" =>
          /\ report.gaps_found = gap_report
          /\ \A t \in DOMAIN report.gaps_found : report.gaps_found[t] >= 1

\* the scan of the first table raised, the second table had no incomplete
\* row and the third had one: the report lists the third table only
C40_Witness ==
    /\ pc = "returned"
    /\ scan_log = << << "seo_junk", "raised", 0 >>,
                     << "analytics_junk", "rows", 0 >>,
                     << "master_strategy_junk", "rows", 1 >> >>
    /\ DOMAIN report.gaps_found = {"master_strategy_junk"}
    /\ report.gaps_found["master_strategy_junk"] = 1

====
